---------------------------- MODULE Spec2Model ----------------------------
(***************************************************************************)
(* State-machine model of the DETECT-PD training pipeline                  *)
(* (src/detect_pd/src/detect_pd): split, preprocessing, feature selection, *)
(* training-input assembly, model training and evaluation.                 *)
(*                                                                         *)
(* A DataFrame is a record [index, columns, rows]: the row identifiers in  *)
(* row order, the column names in column order, and one function           *)
(* column -> cell per row.  Cells and row identifiers are tagged tuples.   *)
(***************************************************************************)
EXTENDS Integers, Sequences, FiniteSets, TLC

VARIABLES
    pc,                        \* stage of training_pipeline about to run
    error,                     \* exception that ended the run, or "none"
    warnings,                  \* logger.warning calls made so far
    config,                    \* PipelineConfig
    raw_data,                  \* raw_data of training_pipeline
    split_output,              \* SplitOutput
    preprocessing_output,      \* PreprocessingOutput
    lasso,                     \* per target, coef_ of the fitted LassoCV and the rows of its fit
    feature_selection_output,  \* FeatureSelectionOutput
    training_input,            \* ModelTrainingInput
    training_results,          \* ModelTrainingResults
    evaluation_summary,        \* EvaluationSummary
    replay,                    \* a direct call of apply_preprocessing_to_new_data
    heap,                      \* the objects behind PreprocessingOutput and ModelTrainingInput
    call,                      \* a direct call of a function of utils/clinical.py
    twin                       \* second run on the same train split

vars == <<pc, error, warnings, config, raw_data, split_output,
          preprocessing_output, lasso, feature_selection_output,
          training_input, training_results, evaluation_summary, replay, heap, call,
          twin>>

----------------------------------------------------------------------------
(* Bounds of the model *)

MaxRows == 3

MaxSeed == 2

----------------------------------------------------------------------------
(* Generic helpers *)

Unset == [status |-> "none"]

\* an artifact that was not fitted (None)
NoTransformer == [kind |-> "none"]

\* F with its parameter bound to the value v
Let(v, F(_)) == F(v)

\* the statement F on the result r of the statement before it, unless that raised
Then(r, F(_)) == IF r.status # "ok" THEN r ELSE F(r)

Range(s) == {s[i] : i \in DOMAIN s}

Min2(a, b) == IF a < b THEN a ELSE b

RECURSIVE Factorial(_)
Factorial(n) == IF n <= 1 THEN 1 ELSE n * Factorial(n - 1)

\* the sequence s without its k-th element
RemoveAt(s, k) == SubSeq(s, 1, k - 1) \o SubSeq(s, k + 1, Len(s))

\* the elements of s that satisfy Keep, in order
RECURSIVE FilterSeq(_, _)
FilterSeq(s, keep) ==
    IF s = <<>> THEN <<>>
    ELSE (IF Head(s) \in keep THEN <<Head(s)>> ELSE <<>>) \o FilterSeq(Tail(s), keep)

InjectiveSeqs(S, n) == {s \in [1..n -> S] : \A i, j \in 1..n : i # j => s[i] # s[j]}

----------------------------------------------------------------------------
(* Row identifiers and str() *)

IntId(k) == <<"int", k>>

StrId(s) == <<"str", s>>

Digit(d) ==
    CASE d = 0 -> "0" [] d = 1 -> "1" [] d = 2 -> "2" [] d = 3 -> "3"
      [] d = 4 -> "4" [] d = 5 -> "5" [] d = 6 -> "6" [] d = 7 -> "7"
      [] d = 8 -> "8" [] d = 9 -> "9"

RECURSIVE IntToStr(_)
IntToStr(k) ==
    IF k < 0 THEN "-" \o IntToStr(0 - k)
    ELSE IF k < 10 THEN Digit(k)
    ELSE IntToStr(k \div 10) \o Digit(k % 10)

\* Index.astype(str): an integer label becomes its decimal text, a string stays
AsStr(id) == IF id[1] = "int" THEN IntToStr(id[2]) ELSE id[2]

----------------------------------------------------------------------------
(* DataFrame operations *)

Frame(index, columns, rows) == [index |-> index, columns |-> columns, rows |-> rows]

NRows(df) == Len(df.index)

\* df.iloc[positions]
ILoc(df, positions) ==
    [index   |-> [i \in 1..Len(positions) |-> df.index[positions[i]]],
     columns |-> df.columns,
     rows    |-> [i \in 1..Len(positions) |-> df.rows[positions[i]]]]

\* df[c] as a sequence of cells in row order
Column(df, c) == [i \in 1..NRows(df) |-> df.rows[i][c]]

HasColumn(df, c) == c \in Range(df.columns)

\* df.loc[:, columns]
SelectColumns(df, columns) ==
    [index   |-> df.index,
     columns |-> columns,
     rows    |-> [i \in 1..NRows(df) |-> [c \in Range(columns) |-> df.rows[i][c]]]]

\* the positions of the rows of df whose label is in ids, in df's order
RECURSIVE PositionsOf(_, _, _)
PositionsOf(df, ids, i) ==
    IF i > NRows(df) THEN <<>>
    ELSE (IF df.index[i] \in ids THEN <<i>> ELSE <<>>) \o PositionsOf(df, ids, i + 1)

----------------------------------------------------------------------------
(* Cells: NaN, exact rational numbers, strings *)

NaN == <<"nan">>

RECURSIVE GCD(_, _)
GCD(a, b) == IF b = 0 THEN a ELSE GCD(b, a % b)

Abs(x) == IF x < 0 THEN 0 - x ELSE x

\* the number p/q (q # 0) in lowest terms with a positive denominator
Num(p, q) ==
    LET g == GCD(Abs(p), Abs(q))
        sgn == IF q < 0 THEN 0 - 1 ELSE 1
    IN  <<"num", (sgn * p) \div g, (sgn * q) \div g>>

Whole(k) == <<"num", k, 1>>

Str(s) == <<"str", s>>

IsNaN(v) == v[1] = "nan"

IsNum(v) == v[1] = "num"

NumLess(a, b) == a[2] * b[3] < b[2] * a[3]

NumLeq(a, b) == a[2] * b[3] <= b[2] * a[3]

NumAdd(a, b) == Num(a[2] * b[3] + b[2] * a[3], a[3] * b[3])

NumSub(a, b) == Num(a[2] * b[3] - b[2] * a[3], a[3] * b[3])

NumMul(a, b) == Num(a[2] * b[2], a[3] * b[3])

NumDiv(a, b) == Num(a[2] * b[3], a[3] * b[2])

----------------------------------------------------------------------------
(* steps/split.py *)

\* numpy RandomState(seed).permutation(n): a permutation of 1..n fixed by the
\* seed.  The generator is modelled by the factorial number system, so that
\* the seeds 0..n!-1 give every permutation of 1..n.
RECURSIVE NthPermutation(_, _)
NthPermutation(items, k) ==
    IF items = <<>> THEN <<>>
    ELSE LET f == Factorial(Len(items) - 1)
             i == ((k \div f) % Len(items)) + 1
         IN  <<items[i]>> \o NthPermutation(RemoveAt(items, i), k % f)

Permutation(seed, n) == NthPermutation([i \in 1..n |-> i], seed % Factorial(n))

\* a rounding slip: floor instead of ceil
NTestFloor(n, test_pct) == (test_pct * n) \div 100

\* sklearn _validate_shuffle_split: ceil(test_size * n), test_size in percent
NTest(n, test_pct) == (test_pct * n + 99) \div 100

NTrain(n, test_pct) == n - NTest(n, test_pct)

\* an off-by-one slip: the train slice starts one position early
SplitPositionsOverlap(n, cfg) ==
    LET nt == NTest(n, cfg.test_size)
        ntr == NTrain(n, cfg.test_size)
        p == IF cfg.shuffle THEN Permutation(cfg.random_seed, n) ELSE [i \in 1..n |-> i]
    IN  IF cfg.shuffle
        THEN <<SubSeq(p, nt, nt + ntr - 1), SubSeq(p, 1, nt)>>
        ELSE <<[i \in 1..ntr |-> i], [i \in 1..nt |-> ntr + i - 1]>>

\* sklearn train_test_split's row positions: <<train positions, test positions>>
SplitPositions(n, cfg) ==
    LET nt == NTest(n, cfg.test_size)
        ntr == NTrain(n, cfg.test_size)
    IN  IF cfg.shuffle
        THEN LET p == Permutation(cfg.random_seed, n)
             IN  <<SubSeq(p, nt + 1, nt + ntr), SubSeq(p, 1, nt)>>
        ELSE <<[i \in 1..ntr |-> i], [i \in 1..nt |-> ntr + i]>>

\* train_test_split raises ValueError when the train set would be empty
SplitFails(df, cfg) == NTrain(NRows(df), cfg.test_size) = 0

perform_split(df, cfg) ==
    LET pos == SplitPositions(NRows(df), cfg)
        train_df == ILoc(df, pos[1])
        test_df == ILoc(df, pos[2])
    IN  [status       |-> "ok",
         train        |-> train_df,
         test         |-> test_df,
         test_indices |-> [i \in 1..NRows(test_df) |-> AsStr(test_df.index[i])]]


----------------------------------------------------------------------------
(* Configuration (config/*.py), already validated *)

DefaultSplitConfig == [test_size |-> 20, shuffle |-> TRUE, random_seed |-> 42]

\* FeatureSelectionTargetConfig under its alias in FeatureEngineeringConfig.targets
TargetConfig(alias, target_name, min_features) ==
    [alias |-> alias, target_name |-> target_name, problem_type |-> "regression",
     threshold |-> NaN, min_features |-> min_features]

\* PreprocessingConfig(): "" stands for None, comorbidity_columns is the
\* mapping as a sequence of pairs <<column, label>>
DefaultPreprocessingConfig ==
    [scaling_method         |-> "standard",
     minmax_feature_range   |-> <<Whole(0), Whole(1)>>,
     log_transform_features |-> <<>>,
     categorical_encoding   |-> "one_hot",
     imputation_strategy    |-> "none",
     include_age_in_cci     |-> TRUE,
     cci_weights            |-> <<>>,
     weight_column          |-> "weight_kg",
     height_column          |-> "height_cm",
     age_column             |-> "age",
     time_column_map        |-> <<>>,
     comorbidity_columns    |-> <<>>,
     target_columns         |-> <<"ktv", "pet">>,
     categorical_features   |-> <<>>,
     numeric_features       |-> <<>>]

\* EvaluationConfig: the fields evaluate_models reads, with their defaults
DefaultEvaluationConfig == [comparison_metric |-> "r2", generate_plots |-> TRUE]

\* DataIngestionConfig; file stands for file_path and sheet_name: the sheet
\* that pd.read_excel returns for them; "" stands for None
DefaultIngestionConfig ==
    [file                     |-> Frame(<<>>, <<>>, <<>>),
     required_columns         |-> <<>>,
     date_columns             |-> <<>>,
     numeric_validation_rules |-> <<>>,
     column_renames           |-> <<>>,
     drop_columns             |-> <<>>,
     index_column             |-> "",
     drop_missing_outcomes    |-> TRUE]

DefaultConfig ==
    [data_ingestion      |-> DefaultIngestionConfig,
     split               |-> DefaultSplitConfig,
     preprocessing       |-> DefaultPreprocessingConfig,
     feature_engineering |-> [targets |-> <<>>],
     model_training      |-> [targets |-> <<>>],
     evaluation          |-> DefaultEvaluationConfig]

EmptyFrame == Frame(<<>>, <<>>, <<>>)

TwinUnset ==
    [test_data                |-> EmptyFrame,
     failed                   |-> FALSE,
     split_output             |-> Unset,
     preprocessing_output     |-> Unset,
     lasso                    |-> Unset,
     feature_selection_output |-> Unset,
     training_input           |-> Unset,
     training_results         |-> Unset,
     evaluation_summary       |-> Unset]

\* the state of a run of which no stage has produced anything yet
NothingYet ==
    /\ error = "none"
    /\ warnings = {}
    /\ split_output = Unset
    /\ preprocessing_output = Unset
    /\ lasso = Unset
    /\ feature_selection_output = Unset
    /\ training_input = Unset
    /\ training_results = Unset
    /\ evaluation_summary = Unset
    /\ replay = Unset
    /\ heap = Unset
    /\ call = Unset

----------------------------------------------------------------------------
(* pipelines/training_pipeline.py: split_step *)

SplitStep ==
    /\ pc = "split"
    /\ \/ /\ SplitFails(raw_data, config.split)
          /\ pc' = "failed"
          /\ error' = "ValueError"
          /\ UNCHANGED <<split_output, twin>>
       \/ /\ ~SplitFails(raw_data, config.split)
          /\ split_output' = perform_split(raw_data, config.split)
          /\ twin' = [twin EXCEPT !.split_output =
                         [status       |-> "ok",
                          train        |-> split_output'.train,
                          test         |-> twin.test_data,
                          test_indices |-> [i \in 1..NRows(twin.test_data) |->
                                              AsStr(twin.test_data.index[i])]]]
          /\ pc' = "preprocessing"
          /\ UNCHANGED error
    /\ UNCHANGED <<warnings, config, heap, call, raw_data, preprocessing_output, lasso,
                   feature_selection_output, training_input, training_results,
                   evaluation_summary, replay>>

\* a generator shared by the calls of the process: each call goes on from
\* where the call before it stopped
RandomStateShared(seed, earlier_calls) == seed + earlier_calls

\* sklearn check_random_state(seed) for an int seed: every call of
\* train_test_split builds a new RandomState from the seed, whatever number
\* of calls came before it
RandomState(seed, earlier_calls) == seed

\* a second perform_split(df, config) of the caller, on the same dataset with
\* the same configuration, after the one of split_step
SplitAgainStep ==
    /\ pc = "preprocessing"
    /\ call = Unset
    /\ call' = [status |-> "returned",
                result |-> perform_split(raw_data,
                              [config.split EXCEPT
                                  !.random_seed = RandomState(config.split.random_seed, 1)])]
    /\ pc' = "returned"
    /\ UNCHANGED <<error, warnings, config, raw_data, split_output, preprocessing_output,
                   lasso, feature_selection_output, training_input, training_results,
                   evaluation_summary, replay, heap, twin>>

----------------------------------------------------------------------------
(* Specification SplitSpec: perform_split on every small dataset *)

RowIds == {IntId(0), IntId(1), IntId(2), IntId(10), StrId("patient-0"), StrId("1")}

TestSizes == {5, 20, 25, 40, 50}

\* a dataset of n rows with unique row identifiers and one column "value"
SplitFrames ==
    UNION {{Frame(ix, <<"value">>, [i \in 1..n |-> [c \in {"value"} |-> <<"num", i>>]]) :
              ix \in InjectiveSeqs(RowIds, n)} : n \in 0..MaxRows}

SplitConfigs ==
    [test_size : TestSizes, shuffle : BOOLEAN, random_seed : 0..MaxSeed]

InitSplit ==
    /\ pc = "split"
    /\ raw_data \in SplitFrames
    /\ config \in {[DefaultConfig EXCEPT !.split = sc] : sc \in SplitConfigs}
    /\ twin = TwinUnset
    /\ NothingYet

NextSplit == SplitStep \/ SplitAgainStep

SplitSpec == InitSplit /\ [][NextSplit]_vars

----------------------------------------------------------------------------
(* Claims about perform_split, checked under SplitSpec *)

\* the least integer k with k >= pct/100 * n
CeilOfFraction(pct, n) == CHOOSE k \in 0..n : 100 * k >= pct * n /\ 100 * (k - 1) < pct * n

\* the row of df labelled id
RowOf(df, id) == df.rows[CHOOSE i \in 1..NRows(df) : df.index[i] = id]

\* C5: whenever perform_split succeeds on a dataset with unique row
\* identifiers, train and test share no row identifier, together they hold
\* exactly the input's row identifiers (each once, with the input's row), and
\* test_indices is str() of the test set's identifiers in the test set's order.
C5_SplitPartitionsInput ==
    split_output.status = "ok" =>
        LET train == split_output.train
            test == split_output.test
        IN  /\ Range(train.index) \cap Range(test.index) = {}
            /\ Range(train.index) \cup Range(test.index) = Range(raw_data.index)
            /\ NRows(train) + NRows(test) = NRows(raw_data)
            /\ \A i \in 1..NRows(train) : train.rows[i] = RowOf(raw_data, train.index[i])
            /\ \A i \in 1..NRows(test) : test.rows[i] = RowOf(raw_data, test.index[i])
            /\ Len(split_output.test_indices) = NRows(test)
            /\ \A i \in 1..NRows(test) :
                  split_output.test_indices[i] = AsStr(test.index[i])

\* C5 witness: a shuffled split with two test rows that include the input's
\* first row, and integer row identifiers turned into text
C5_Witness ==
    /\ split_output.status = "ok"
    /\ config.split.shuffle
    /\ NRows(split_output.test) >= 2
    /\ NRows(split_output.train) >= 1
    /\ split_output.test.index[1] = raw_data.index[1]
    /\ split_output.test.index[1][1] = "int"

\* C6: with shuffle=False the test set is exactly the last ceil(f*n) rows of
\* the input in original order and the train set the first n - ceil(f*n) rows.
C6_UnshuffledSplitTakesTail ==
    (split_output.status = "ok" /\ ~config.split.shuffle) =>
        LET n == NRows(raw_data)
            k == CeilOfFraction(config.split.test_size, n)
        IN  /\ split_output.test.index = SubSeq(raw_data.index, n - k + 1, n)
            /\ split_output.test.rows = SubSeq(raw_data.rows, n - k + 1, n)
            /\ split_output.train.index = SubSeq(raw_data.index, 1, n - k)
            /\ split_output.train.rows = SubSeq(raw_data.rows, 1, n - k)

\* C6 witness: an unshuffled split where f*n is not an integer (3 rows, 40%)
C6_Witness ==
    /\ split_output.status = "ok"
    /\ ~config.split.shuffle
    /\ NRows(raw_data) = 3
    /\ config.split.test_size = 40
    /\ NRows(split_output.test) = 2

----------------------------------------------------------------------------
(* steps/feature_selection.py *)

\* LassoCV(cv=5): the number of folds
CvFolds == 5

\* the values a fitted coefficient takes in the model
CoefValues == {0 - 2, 0, 1}

\* target_cfg.target_name or target_alias ("" stands for None)
TargetColumn(tc) == IF tc.target_name # "" THEN tc.target_name ELSE tc.alias

\* a reading slip: the rows without a value of the target are kept
_prepare_target_series_keeping_missing(targets, target_column, tc) ==
    [index  |-> targets.index,
     values |-> Column(targets, target_column)]

\* targets[target_column].dropna(), binarised when configured:
\* [index, values] of the rows that have a value
_prepare_target_series(targets, target_column, tc) ==
    LET col == Column(targets, target_column)
        pos == PositionsOf(targets, {targets.index[i] : i \in {j \in 1..NRows(targets) : ~IsNaN(col[j])}}, 1)
        binarise(v) == IF tc.problem_type = "binary" /\ tc.threshold # NaN
                       THEN (IF NumLeq(tc.threshold, v) THEN Whole(1) ELSE Whole(0))
                       ELSE v
    IN  [index  |-> [i \in 1..Len(pos) |-> targets.index[pos[i]]],
         values |-> [i \in 1..Len(pos) |-> binarise(col[pos[i]])]]

\* StandardScaler(with_mean=False).fit_transform(feature_frame): each cell
\* divided by its column's standard deviation, kept as the pair (cell, column)
FSScaled(feature_frame) ==
    [index   |-> feature_frame.index,
     columns |-> feature_frame.columns,
     rows    |-> [i \in 1..NRows(feature_frame) |->
                    [c \in Range(feature_frame.columns) |->
                        <<"unit_variance", feature_frame.rows[i][c], Column(feature_frame, c)>>]]]

\* StandardScaler raises on a frame with no rows, no columns or a cell that is
\* not a finite number or NaN
FSScalerFails(feature_frame) ==
    \/ NRows(feature_frame) = 0
    \/ feature_frame.columns = <<>>
    \/ \E i \in 1..NRows(feature_frame), c \in Range(feature_frame.columns) :
          feature_frame.rows[i][c][1] \notin {"num", "nan", "root"}

\* scaled_features.loc[y_series.index]
Aligned(scaled, y) == ILoc(scaled, PositionsOf(scaled, Range(y.index), 1))

\* LassoCV.fit raises ValueError with fewer samples than folds or a NaN in X
_fit_lasso_fails(X, y) ==
    \/ Len(y.index) < CvFolds
    \/ \E i \in 1..NRows(X), c \in Range(X.columns) : IsNaN(X.rows[i][c][2])

\* a descending sort of the columns by |coef|, ties in any order
IsDescendingOrder(order, columns, coef) ==
    /\ Len(order) = Len(columns)
    /\ Range(order) = Range(columns)
    /\ \A i \in 1..(Len(order) - 1) : Abs(coef[order[i]]) >= Abs(coef[order[i + 1]])

NonZero(columns, coef) == FilterSeq(columns, {c \in Range(columns) : coef[c] # 0})

\* a reading slip: the fallback is never taken
_select_features_no_fallback(columns, model, tc) == NonZero(columns, model.coef)

\* a sorting slip: the fallback keeps the smallest magnitudes
_select_features_ascending(columns, model, tc) ==
    LET non_zero == NonZero(columns, model.coef)
        n == Len(columns)
    IN  IF Len(non_zero) < tc.min_features
        THEN [i \in 1..Min2(tc.min_features, n) |-> model.order[n + 1 - i]]
        ELSE non_zero

\* model = [coef, order]: LassoCV.coef_ and the order sort_values gives them
_select_features(columns, model, tc) ==
    LET non_zero == NonZero(columns, model.coef)
    IN  IF Len(non_zero) < tc.min_features
        THEN SubSeq(model.order, 1, Min2(tc.min_features, Len(columns)))
        ELSE non_zero

\* what run_feature_selection finds for target i before any model is fitted:
\* the exception it raises, or the columns and rows (X_index, y) LassoCV is
\* fitted on
FSTarget(po, cfg, i) ==
    LET tc == cfg.targets[i]
        target_column == TargetColumn(tc)
    IN  IF ~HasColumn(po.targets, target_column)
        THEN [outcome |-> "KeyError"]
        ELSE LET y == _prepare_target_series(po.targets, target_column, tc)
                 X == Aligned(FSScaled(po.features), y)
             IN  IF y.index = <<>> \/ _fit_lasso_fails(X, y)
                 THEN [outcome |-> "ValueError"]
                 ELSE [outcome |-> "fit", target_column |-> target_column,
                       columns |-> X.columns, tc |-> tc, X_index |-> X.index, y |-> y]

FSTargets(po, cfg) == [i \in 1..Len(cfg.targets) |-> FSTarget(po, cfg, i)]

\* the loop of run_feature_selection from target i on, given the fitted
\* models; results and fitted map target columns to their latest entry, and
\* fitted keeps the coef_ of each model beside what it was fitted on
RECURSIVE FSLoop(_, _, _, _, _)
FSLoop(plan, i, models, results, fitted) ==
    IF i > Len(plan)
    THEN [status |-> "ok", results |-> results, fitted |-> fitted]
    ELSE IF plan[i].outcome # "fit"
    THEN [status |-> "error", error |-> plan[i].outcome]
    ELSE LET selected == _select_features(plan[i].columns, models[i], plan[i].tc)
             result == [selected_features |-> selected,
                        coefficients |-> [f \in Range(selected) |-> models[i].coef[f]]]
         IN  FSLoop(plan, i + 1, models,
                    (plan[i].target_column :> result) @@ results,
                    (plan[i].target_column :>
                        [coef |-> models[i].coef, X_index |-> plan[i].X_index, y |-> plan[i].y])
                    @@ fitted)

\* what run_feature_selection does before any model is fitted: the scaler
\* rejects the frame (ValueError), or each target's FSTarget
FSPlan(po, cfg) ==
    IF FSScalerFails(po.features)
    THEN [scaler_fails |-> TRUE, targets |-> <<>>]
    ELSE [scaler_fails |-> FALSE, targets |-> FSTargets(po, cfg)]

run_feature_selection(plan, models) ==
    IF plan.scaler_fails
    THEN [status |-> "error", error |-> "ValueError"]
    ELSE FSLoop(plan.targets, 1, models, <<>>, <<>>)

\* the models LassoCV can return for target i: any coefficients, and for the
\* fallback any descending order of them (the column order otherwise)
ColumnOrders(columns) ==
    {[i \in 1..Len(columns) |-> columns[p[i]]] : p \in InjectiveSeqs(1..Len(columns), Len(columns))}

LassoModels(target) ==
    IF target.outcome # "fit"
    THEN {[coef |-> <<>>, order |-> <<>>]}
    ELSE UNION {
           IF Len(NonZero(target.columns, coef)) < target.tc.min_features
           THEN {[coef |-> coef, order |-> o] :
                    o \in {q \in ColumnOrders(target.columns) :
                              IsDescendingOrder(q, target.columns, coef)}}
           ELSE {[coef |-> coef, order |-> target.columns]} :
           coef \in [Range(target.columns) -> CoefValues]}

\* every choice of one model per configured target
RECURSIVE ModelChoices(_, _)
ModelChoices(plan, i) ==
    IF i > Len(plan.targets) THEN {<<>>}
    ELSE {<<m>> \o rest : m \in LassoModels(plan.targets[i]), rest \in ModelChoices(plan, i + 1)}

----------------------------------------------------------------------------
(* pipelines/training_pipeline.py: feature_selection_step *)

\* the second run's feature selection: LassoCV is a function of its input, so
\* on the input of the first run it returns the models of the first run
TwinFeatureSelection(models) ==
    IF twin.preprocessing_output.status # "ok"
    THEN twin' = twin
    ELSE \E plan \in {FSPlan(twin.preprocessing_output, config.feature_engineering)} :
             \E models2 \in ModelChoices(plan, 1) :
               /\ (/\ twin.preprocessing_output.features = preprocessing_output.features
                   /\ twin.preprocessing_output.targets = preprocessing_output.targets)
                      => models2 = models
               /\ LET out == run_feature_selection(plan, models2)
                  IN  twin' = IF out.status = "ok"
                              THEN [twin EXCEPT !.feature_selection_output =
                                                   [status |-> "ok", results |-> out.results],
                                                !.lasso = out.fitted]
                              ELSE [twin EXCEPT !.failed = TRUE]

FeatureSelectionStep ==
    /\ pc = "feature_selection"
    /\ \E plan \in {FSPlan(preprocessing_output, config.feature_engineering)} :
           \E models \in ModelChoices(plan, 1) :
             LET out == run_feature_selection(plan, models)
             IN  /\ \/ /\ out.status = "error"
                       /\ pc' = "failed"
                       /\ error' = out.error
                       /\ UNCHANGED <<feature_selection_output, lasso>>
                    \/ /\ out.status = "ok"
                       /\ feature_selection_output' = [status |-> "ok", results |-> out.results]
                       /\ lasso' = out.fitted
                       /\ pc' = "training_input"
                       /\ UNCHANGED error
                 /\ TwinFeatureSelection(models)
    /\ UNCHANGED <<warnings, config, heap, call, raw_data, split_output, preprocessing_output,
                   training_input, training_results, evaluation_summary, replay>>

----------------------------------------------------------------------------
(* Specification SelectSpec: run_feature_selection on small feature matrices *)

MaxFeatures == 3

MaxMinFeatures == 3

FeatureNames == <<"a", "b", "c", "d", "e", "f">>

\* PreprocessingArtifacts of a matrix that needed no fitted transformer
PlainArtifacts(columns) ==
    [scaler |-> NoTransformer, encoder |-> NoTransformer, imputer |-> NoTransformer,
     feature_columns |-> columns,
     encoded_categorical_columns |-> <<>>,
     original_categorical_columns |-> <<>>,
     numeric_columns |-> columns]

SelectIndex == [i \in 1..CvFolds |-> IntId(i - 1)]

\* a feature matrix of CvFolds rows and k columns
SelectFeatures(k) ==
    LET columns == SubSeq(FeatureNames, 1, k)
    IN  Frame(SelectIndex, columns,
              [i \in 1..CvFolds |-> [c \in Range(columns) |-> Whole(i)]])

\* the targets: "pet" always observed; "ktv" observed, partly or never
\* observed, or not a column
SelectTargets ==
    {Frame(SelectIndex, <<"pet">>, [i \in 1..CvFolds |-> [c \in {"pet"} |-> Whole(1)]])}
    \cup
    {Frame(SelectIndex, <<"ktv", "pet">>,
           [i \in 1..CvFolds |-> [c \in {"ktv", "pet"} |->
               IF c = "ktv" /\ i <= missing THEN NaN ELSE Whole(i)]]) :
        missing \in {0, 1, CvFolds}}

SelectTargetConfigs ==
    {TargetConfig(a, "", m) : a \in {"ktv", "pet"}, m \in 1..MaxMinFeatures}
    \cup {[TargetConfig("adequacy", "ktv", 1) EXCEPT !.problem_type = "binary", !.threshold = Whole(2)]}

SelectConfigs ==
    {[DefaultConfig EXCEPT !.feature_engineering = [targets |-> tcs]] :
        tcs \in {<<>>} \cup {<<t>> : t \in SelectTargetConfigs}
                \cup {<<t, u>> : t \in SelectTargetConfigs,
                                  u \in {TargetConfig("pet", "", 1),
                                         TargetConfig("ktv", "", MaxMinFeatures)}}}

InitSelect ==
    /\ pc = "feature_selection"
    /\ config \in SelectConfigs
    /\ raw_data = EmptyFrame
    /\ twin = TwinUnset
    /\ error = "none"
    /\ warnings = {}
    /\ split_output = Unset
    /\ \E k \in 1..MaxFeatures, t \in SelectTargets :
          preprocessing_output =
              [status |-> "ok", features |-> SelectFeatures(k), targets |-> t,
               artifacts |-> PlainArtifacts(SubSeq(FeatureNames, 1, k))]
    /\ lasso = Unset
    /\ feature_selection_output = Unset
    /\ training_input = Unset
    /\ training_results = Unset
    /\ evaluation_summary = Unset
    /\ replay = Unset
    /\ heap = Unset
    /\ call = Unset

NextSelect == FeatureSelectionStep

SelectSpec == InitSelect /\ [][NextSelect]_vars

----------------------------------------------------------------------------
(* Claims about run_feature_selection, checked under SelectSpec *)

\* the configuration that produced the result stored for target column t:
\* the last configured target that names it
LastConfigFor(t) ==
    LET tcs == config.feature_engineering.targets
        last == CHOOSE i \in 1..Len(tcs) :
                   /\ TargetColumn(tcs[i]) = t
                   /\ \A j \in (i + 1)..Len(tcs) : TargetColumn(tcs[j]) # t
    IN  tcs[last]

FSResults == feature_selection_output.results

\* C7 as stated: every returned FeatureSelectionResult has at least
\* min_features selected features, whatever the width of the feature matrix,
\* and at least one.
C7_AtLeastMinFeaturesSelected ==
    feature_selection_output.status = "ok" =>
        \A t \in DOMAIN FSResults :
            /\ Len(FSResults[t].selected_features) >= LastConfigFor(t).min_features
            /\ FSResults[t].selected_features # <<>>

\* C7 amended: every returned FeatureSelectionResult has at least
\* min(min_features, number of feature columns) selected features (all the
\* columns when the matrix has fewer than min_features), and at least one.
C7_AtLeastMinFeaturesOrAllSelected ==
    feature_selection_output.status = "ok" =>
        \A t \in DOMAIN FSResults :
            /\ Len(FSResults[t].selected_features) >=
                  Min2(LastConfigFor(t).min_features, Len(preprocessing_output.features.columns))
            /\ FSResults[t].selected_features # <<>>

\* C7 witness: a result for a matrix narrower than the target's min_features
C7_Witness ==
    /\ feature_selection_output.status = "ok"
    /\ \E t \in DOMAIN FSResults :
          /\ Len(preprocessing_output.features.columns) < LastConfigFor(t).min_features
          /\ Len(FSResults[t].selected_features) = Len(preprocessing_output.features.columns)

\* C8: with coef the fitted coefficients of a target, the selected features
\* are exactly the non-zero-coefficient columns when there are at least
\* min_features of them, and otherwise the min_features columns of largest
\* |coef| (all columns when there are fewer than min_features); either way
\* every non-zero-coefficient column is selected, no column twice, and the
\* coefficients map has exactly the selected features as keys, each with its
\* fitted coefficient.
C8_SelectionRule ==
    feature_selection_output.status = "ok" =>
        \A t \in DOMAIN FSResults :
            LET coef == lasso[t].coef
                columns == Range(preprocessing_output.features.columns)
                k == LastConfigFor(t).min_features
                non_zero == {c \in columns : coef[c] # 0}
                selected == Range(FSResults[t].selected_features)
            IN  /\ Cardinality(selected) = Len(FSResults[t].selected_features)
                /\ IF Cardinality(non_zero) >= k
                   THEN selected = non_zero
                   ELSE /\ selected \subseteq columns
                        /\ Cardinality(selected) = Min2(k, Cardinality(columns))
                        /\ \A f \in selected, g \in columns \ selected :
                              Abs(coef[f]) >= Abs(coef[g])
                /\ non_zero \subseteq selected
                /\ DOMAIN FSResults[t].coefficients = selected
                /\ \A f \in selected : FSResults[t].coefficients[f] = coef[f]

\* C8 witness: the fallback taken with a negative non-zero coefficient, a
\* zero coefficient selected and another column left out
C8_Witness ==
    /\ feature_selection_output.status = "ok"
    /\ \E t \in DOMAIN FSResults :
          LET selected == Range(FSResults[t].selected_features)
          IN  /\ \E f \in selected : lasso[t].coef[f] < 0
              /\ \E f \in selected : lasso[t].coef[f] = 0
              /\ selected # Range(preprocessing_output.features.columns)

----------------------------------------------------------------------------
(* steps/training_input.py *)

\* the column names of the model in the order of Python's sorted()
NameOrder ==
    <<"a", "age", "b", "c", "charlson_index", "d", "e", "egfr", "f", "ktv", "pet", "z">>

\* sorted(names) for a set of names
Sorted(names) == FilterSeq(NameOrder, names)

selected_union_descending(selected_feature_map) ==
    LET asc == Sorted(UNION {Range(selected_feature_map[t]) : t \in DOMAIN selected_feature_map})
    IN  [i \in 1..Len(asc) |-> asc[Len(asc) + 1 - i]]

selected_union(selected_feature_map) ==
    Sorted(UNION {Range(selected_feature_map[t]) : t \in DOMAIN selected_feature_map})

build_training_input(po, fso) ==
    LET selected_feature_map ==
            [t \in DOMAIN fso.results |-> fso.results[t].selected_features]
        union   == selected_union(selected_feature_map)
        missing == FilterSeq(union, Range(union) \ Range(po.features.columns))
        filtered_features ==
            IF DOMAIN selected_feature_map # {}
            THEN SelectColumns(po.features, FilterSeq(union, Range(po.features.columns)))
            ELSE po.features
    IN  [status               |-> "ok",
         features             |-> filtered_features,
         targets              |-> po.targets,
         selected_feature_map |-> selected_feature_map,
         artifacts            |-> po.artifacts,
         warnings             |->
             IF DOMAIN selected_feature_map # {}
             THEN IF missing # <<>> THEN {"Some selected features were not found in the feature matrix"}
                  ELSE {}
             ELSE {"No features were selected; falling back to entire feature matrix"}]

----------------------------------------------------------------------------
(* pipelines/training_pipeline.py: prepare_training_input_step *)

TwinTrainingInput ==
    IF twin.feature_selection_output.status # "ok" \/ twin.failed
    THEN twin' = twin
    ELSE twin' = [twin EXCEPT !.training_input =
                     build_training_input(twin.preprocessing_output,
                                          twin.feature_selection_output)]

\* the objects a PreprocessingOutput refers to, as addresses in heap.objects
OutputReferences == [features |-> 1, targets |-> 2, artifacts |-> 3]

\* lines 48-53: the objects the returned ModelTrainingInput refers to;
\* .copy() makes a new object (4, 5), a plain attribute read gives the
\* object the PreprocessingOutput refers to
ReturnedReferences(po_refs) ==
    [features |-> 4, targets |-> 5, artifacts |-> po_refs.artifacts]

\* the heap when build_training_input has returned out for po
HeapAfterBuild(po, out) ==
    [status  |-> "ok",
     objects |-> <<po.features, po.targets, po.artifacts, out.features, out.targets>>,
     preprocessing_output |-> OutputReferences,
     training_input       |-> ReturnedReferences(OutputReferences),
     mutations |-> 0,
     last      |-> [holder |-> "none", field |-> "none"]]

TrainingInputStep ==
    /\ pc = "training_input"
    /\ LET out == build_training_input(preprocessing_output, feature_selection_output)
       IN  /\ training_input' = [f \in DOMAIN out \ {"warnings"} |-> out[f]]
           /\ warnings' = warnings \cup out.warnings
           /\ heap' = HeapAfterBuild(preprocessing_output, out)
    /\ pc' = "model_training"
    /\ TwinTrainingInput
    /\ UNCHANGED <<error, config, call, raw_data, split_output, preprocessing_output, lasso,
                   feature_selection_output, training_results, evaluation_summary, replay>>

----------------------------------------------------------------------------
(* Specification AssembleSpec: build_training_input on any selection *)

MaxSelected == 2

SelectableNames == {"a", "b", "c", "z"}

SelectedLists == UNION {[1..n -> SelectableNames] : n \in 0..MaxSelected}

\* results of a feature selection for no, one or two targets
AssembleResults ==
    UNION {[T -> {[selected_features |-> l, coefficients |-> <<>>] : l \in SelectedLists}] :
              T \in SUBSET {"ktv", "pet"}}

\* feature matrices whose column order is not the sorted one
AssembleColumns == {<<>>, <<"b">>, <<"c", "a", "b">>}

AssembleFeatures(columns) ==
    Frame(<<IntId(0), IntId(1)>>, columns,
          [i \in 1..2 |-> [c \in Range(columns) |-> Num(i, 2)]])

AssembleTargets ==
    Frame(<<IntId(0), IntId(1)>>, <<"ktv", "pet">>,
          [i \in 1..2 |-> [c \in {"ktv", "pet"} |-> Whole(i)]])

InitAssemble ==
    /\ pc = "training_input"
    /\ config = DefaultConfig
    /\ raw_data = EmptyFrame
    /\ twin = TwinUnset
    /\ error = "none"
    /\ warnings = {}
    /\ split_output = Unset
    /\ \E columns \in AssembleColumns :
          preprocessing_output =
              [status |-> "ok", features |-> AssembleFeatures(columns),
               targets |-> AssembleTargets, artifacts |-> PlainArtifacts(columns)]
    /\ lasso = Unset
    /\ \E results \in AssembleResults :
          feature_selection_output = [status |-> "ok", results |-> results]
    /\ training_input = Unset
    /\ training_results = Unset
    /\ evaluation_summary = Unset
    /\ replay = Unset
    /\ heap = Unset
    /\ call = Unset

NextAssemble == TrainingInputStep

AssembleSpec == InitAssemble /\ [][NextAssemble]_vars

Assembled == pc = "model_training" /\ training_input.status = "ok"

\* the names selected by some target
SelectedByAny ==
    UNION {Range(feature_selection_output.results[t].selected_features) :
              t \in DOMAIN feature_selection_output.results}

\* position of a name in the order of sorted()
NameRank(n) == CHOOSE i \in 1..Len(NameOrder) : NameOrder[i] = n

\* the frame keeps exactly the columns `names`, in sorted order without
\* repetition, each with the rows and values it has in the matrix
IsSortedSelection(df, names, matrix) ==
    /\ Range(df.columns) = names
    /\ \A i, j \in 1..Len(df.columns) :
          i < j => NameRank(df.columns[i]) < NameRank(df.columns[j])
    /\ df.index = matrix.index
    /\ \A c \in names : Column(df, c) = Column(matrix, c)

FeatureMapUnchanged ==
    /\ DOMAIN training_input.selected_feature_map = DOMAIN feature_selection_output.results
    /\ \A t \in DOMAIN feature_selection_output.results :
          training_input.selected_feature_map[t] =
              feature_selection_output.results[t].selected_features

MissingOnlyWarns ==
    (SelectedByAny \ Range(preprocessing_output.features.columns) # {})
        => /\ error = "none"
           /\ "Some selected features were not found in the feature matrix" \in warnings

C10_EmptySelectionFallsBack ==
    (Assembled /\ SelectedByAny = {})
        => training_input.features = preprocessing_output.features

----------------------------------------------------------------------------
(* More cells: dates, infinities, None, and roots of rationals *)

Date(day) == <<"date", day>>

NaT == <<"nat">>

NegInf == <<"-inf">>

None == <<"none">>

\* sign * sqrt(p/q): the values a StandardScaler produces from rationals
Root(sign, square) == IF sign = 0 THEN <<"root", 0, 0, 1>> ELSE <<"root", sign, square[2], square[3]>>

Sign(a) == IF a[2] > 0 THEN 1 ELSE IF a[2] < 0 THEN 0 - 1 ELSE 0

\* the sum of a sequence of numbers
RECURSIVE NumSum(_)
NumSum(s) == IF s = <<>> THEN Whole(0) ELSE NumAdd(Head(s), NumSum(Tail(s)))

\* df[c] = values: replaces column c in place or appends it as the last column
WithColumn(df, c, values) ==
    [index   |-> df.index,
     columns |-> IF HasColumn(df, c) THEN df.columns ELSE Append(df.columns, c),
     rows    |-> [i \in 1..NRows(df) |->
                    [k \in Range(df.columns) \cup {c} |->
                        IF k = c THEN values[i] ELSE df.rows[i][k]]]]

\* df[c] = values for each c of columns in turn, values[c] being c's cells
RECURSIVE WithColumns(_, _, _)
WithColumns(df, columns, values) ==
    IF columns = <<>> THEN df
    ELSE WithColumns(WithColumn(df, Head(columns), values[Head(columns)]), Tail(columns), values)

\* df.drop(columns=...)
DropColumns(df, names) == SelectColumns(df, FilterSeq(df.columns, Range(df.columns) \ names))

\* the columns of dtype object in the datasets of the model: they hold
\* strings, and keep that dtype in a slice whose cells are all missing
ObjectColumns == {"modality"}

\* the columns select_dtypes(include=[np.number]) keeps: every cell a number
IsNumberColumn(df, c) ==
    /\ c \notin ObjectColumns
    /\ \A i \in 1..NRows(df) : df.rows[i][c][1] \in {"num", "nan", "root", "-inf"}

----------------------------------------------------------------------------
(* utils/clinical.py *)

CCI_BASE_WEIGHTS ==
    [myocardial_infarction |-> 1, congestive_heart_failure |-> 1,
     peripheral_vascular_disease |-> 1, cerebrovascular_disease |-> 1,
     dementia |-> 1, chronic_pulmonary_disease |-> 1,
     connective_tissue_disease |-> 1, peptic_ulcer_disease |-> 1,
     mild_liver_disease |-> 1, diabetes |-> 1,
     diabetes_with_end_organ_damage |-> 2, hemiplegia |-> 2,
     moderate_or_severe_renal_disease |-> 2, any_tumor |-> 2, leukemia |-> 2,
     lymphoma |-> 2, moderate_or_severe_liver_disease |-> 3,
     metastatic_solid_tumor |-> 6, aids_hiv |-> 6]

\* weight_kg / (height_cm / 100.0) ** 2, for height_cm > 0
compute_bmi(weight_kg, height_cm) ==
    NumDiv(weight_kg, NumMul(NumDiv(height_cm, Whole(100)), NumDiv(height_cm, Whole(100))))

\* 0.007184 * weight_kg ** 0.425 * height_cm ** 0.725 rounded to one decimal,
\* for the weights and heights of the model
compute_bsa_du_bois(weight_kg, height_cm) ==
    CASE weight_kg = Whole(4) /\ height_cm = Whole(100) -> Num(4, 10)
      [] weight_kg = Whole(4) /\ height_cm = Whole(200) -> Num(6, 10)
      [] weight_kg = Whole(8) /\ height_cm = Whole(100) -> Num(5, 10)
      [] weight_kg = Whole(8) /\ height_cm = Whole(200) -> Num(8, 10)

\* every comparison with NaN is false, so a NaN age falls through to 5
age_adjustment(age) ==
    IF IsNaN(age) THEN 5
    ELSE IF NumLess(age, Whole(50)) THEN 0
    ELSE IF NumLess(age, Whole(60)) THEN 1
    ELSE IF NumLess(age, Whole(70)) THEN 2
    ELSE IF NumLess(age, Whole(80)) THEN 3
    ELSE IF NumLess(age, Whole(90)) THEN 4
    ELSE 5

\* CharlsonConfig.resolve_weight: an empty weights table means the base table
resolve_weight(cc, comorbidity) ==
    LET weights == IF DOMAIN cc.weights = {} THEN CCI_BASE_WEIGHTS ELSE cc.weights
    IN  IF comorbidity \in DOMAIN weights THEN weights[comorbidity] ELSE 0

RECURSIVE SumWeights(_, _)
SumWeights(cc, comorbidities) ==
    IF comorbidities = <<>> THEN 0
    ELSE resolve_weight(cc, Head(comorbidities)) + SumWeights(cc, Tail(comorbidities))

compute_charlson_index(comorbidities, age, cc) ==
    SumWeights(cc, comorbidities)
    + (IF cc.include_renal_disease THEN resolve_weight(cc, "moderate_or_severe_renal_disease") ELSE 0)
    + (IF cc.include_age /\ age # None THEN age_adjustment(age) ELSE 0)

\* (end - start).dt.days as float: NaN when either date is NaT
compute_time_interval(start, end) ==
    [i \in 1..Len(start) |->
        IF start[i] = NaT \/ end[i] = NaT THEN NaN ELSE Whole(end[i][2] - start[i][2])]

TimeFeatureColumns == <<"failure_period_days", "waiting_period_days", "pd_period_days">>

\* derive_time_features for a complete column_map: the three interval columns
derive_time_features(df, column_map) ==
    LET pd_start == Column(df, column_map["pd_start_date"])
    IN  [failure_period_days |-> compute_time_interval(Column(df, column_map["egfr_below_10_date"]), pd_start),
         waiting_period_days |-> compute_time_interval(Column(df, column_map["tki_date"]), pd_start),
         pd_period_days      |-> compute_time_interval(pd_start, Column(df, column_map["assessment_date"]))]

----------------------------------------------------------------------------
(* steps/preprocessing.py: derived columns *)

Failed(kind) == [status |-> "error", error |-> kind]

\* pd.to_numeric(series, errors="coerce") on one cell
_ensure_numeric(v) == IF IsNum(v) THEN v ELSE NaN

\* the loop of _derive_body_metrics from row i on: a weight <= 0 with a valid
\* height appends the bmi and then, in the except branch, a second bmi entry
RECURSIVE BodyValues(_, _, _)
BodyValues(weights, heights, i) ==
    IF i > Len(weights) THEN [bmi |-> <<>>, bsa |-> <<>>]
    ELSE LET weight == weights[i]
             height == heights[i]
             rest == BodyValues(weights, heights, i + 1)
         IN  IF IsNaN(weight) \/ IsNaN(height) \/ NumLeq(height, Whole(0))
             THEN [bmi |-> <<NaN>> \o rest.bmi, bsa |-> <<NaN>> \o rest.bsa]
             ELSE IF NumLeq(weight, Whole(0))
             THEN [bmi |-> <<compute_bmi(weight, height), NaN>> \o rest.bmi,
                   bsa |-> <<NaN>> \o rest.bsa]
             ELSE [bmi |-> <<compute_bmi(weight, height)>> \o rest.bmi,
                   bsa |-> <<compute_bsa_du_bois(weight, height)>> \o rest.bsa]

\* [status, df]; df["bmi"] = bmi_values raises ValueError on a length mismatch
_derive_body_metrics(df, cfg) ==
    IF /\ cfg.weight_column # "" /\ cfg.height_column # ""
       /\ HasColumn(df, cfg.weight_column) /\ HasColumn(df, cfg.height_column)
    THEN Let(BodyValues([i \in 1..NRows(df) |-> _ensure_numeric(df.rows[i][cfg.weight_column])],
                        [i \in 1..NRows(df) |-> _ensure_numeric(df.rows[i][cfg.height_column])], 1),
             LAMBDA values :
                 IF Len(values.bmi) # NRows(df) THEN Failed("ValueError")
                 ELSE [status |-> "ok",
                       df |-> WithColumn(WithColumn(df, "bmi", values.bmi), "bsa", values.bsa)])
    ELSE [status |-> "ok", df |-> df]

RequiredTimeKeys == {"egfr_below_10_date", "pd_start_date", "tki_date", "assessment_date"}

_derive_time_metrics(df, cfg) ==
    IF DOMAIN cfg.time_column_map = {} THEN [status |-> "ok", df |-> df]
    ELSE IF \E k \in DOMAIN cfg.time_column_map : ~HasColumn(df, cfg.time_column_map[k])
    THEN Failed("KeyError")
    ELSE IF RequiredTimeKeys \ DOMAIN cfg.time_column_map # {} THEN Failed("KeyError")
    ELSE [status |-> "ok",
          df |-> WithColumns(df, TimeFeatureColumns, derive_time_features(df, cfg.time_column_map))]

\* bool(value) of a cell: NaN is truthy
Truthy(v) == IF IsNum(v) THEN v[2] # 0 ELSE IF v[1] = "str" THEN v[2] # "" ELSE TRUE

\* the labels of the mapped columns (pairs <<column, label>>) set in the row
RECURSIVE PresentComorbidities(_, _, _)
PresentComorbidities(df, i, pairs) ==
    IF pairs = <<>> THEN <<>>
    ELSE (IF HasColumn(df, Head(pairs)[1]) /\ Truthy(df.rows[i][Head(pairs)[1]])
          THEN <<Head(pairs)[2]>> ELSE <<>>)
         \o PresentComorbidities(df, i, Tail(pairs))

\* the charlson_index column
_compute_cci(df, cfg) ==
    IF cfg.comorbidity_columns = <<>> THEN [i \in 1..NRows(df) |-> Whole(0)]
    ELSE LET charlson_config ==
                 [weights |-> cfg.cci_weights @@ CCI_BASE_WEIGHTS,
                  include_renal_disease |-> TRUE,
                  include_age |-> cfg.include_age_in_cci]
             row_score(i) ==
                 compute_charlson_index(
                     PresentComorbidities(df, i, cfg.comorbidity_columns),
                     IF HasColumn(df, cfg.age_column) THEN df.rows[i][cfg.age_column] ELSE None,
                     charlson_config)
         IN  [i \in 1..NRows(df) |-> Whole(row_score(i))]

\* np.log1p rounded to one decimal, for the values of the model
log1p(v) ==
    CASE IsNaN(v) -> NaN
      [] v = Whole(0 - 1) -> NegInf
      [] v = Whole(0) -> Whole(0)
      [] v = Whole(1) -> Num(7, 10)
      [] v = Whole(3) -> Num(14, 10)

RECURSIVE _apply_log_transform(_, _)
_apply_log_transform(df, columns) ==
    IF columns = <<>> THEN [status |-> "ok", df |-> df]
    ELSE IF ~HasColumn(df, Head(columns)) THEN _apply_log_transform(df, Tail(columns))
    ELSE LET values == Column(df, Head(columns))
         IN  IF \E i \in 1..Len(values) : IsNum(values[i]) /\ NumLess(values[i], Whole(0 - 1))
             THEN Failed("ValueError")
             ELSE _apply_log_transform(
                      WithColumn(df, Head(columns), [i \in 1..Len(values) |-> log1p(values[i])]),
                      Tail(columns))

\* a reading slip: the target columns also stay among the features
_split_features_targets_keeping(df, target_columns) ==
    IF \E c \in Range(target_columns) : ~HasColumn(df, c) THEN Failed("KeyError")
    ELSE [status  |-> "ok",
          df      |-> df,
          targets |-> SelectColumns(df, target_columns)]

\* [status, df, targets] with df the features; df[target_columns] raises KeyError
_split_features_targets(df, target_columns) ==
    IF \E c \in Range(target_columns) : ~HasColumn(df, c) THEN Failed("KeyError")
    ELSE [status  |-> "ok",
          df      |-> DropColumns(df, Range(target_columns)),
          targets |-> SelectColumns(df, target_columns)]

\* the statements shared by preprocess_dataset and
\* apply_preprocessing_to_new_data: derived columns, log transform, split
DeriveAndSplit(data, cfg) ==
    Then(Then(Then(_derive_body_metrics(data, cfg),
                   LAMBDA s : _derive_time_metrics(s.df, cfg)),
              LAMBDA s : _apply_log_transform(
                             WithColumn(s.df, "charlson_index", _compute_cci(s.df, cfg)),
                             cfg.log_transform_features)),
         LAMBDA s : _split_features_targets(s.df, cfg.target_columns))

----------------------------------------------------------------------------
(* steps/preprocessing.py: imputer, scaler, encoder *)

\* the non-missing cells of a column
Observed(values) == FilterSeq(values, Range(values) \ {NaN})

\* sklearn's input validation: "KeyError" for a column the frame lacks,
\* "ValueError" for no rows or a cell that is not a finite number or NaN
ValidationError(df, columns) ==
    IF \E c \in Range(columns) : ~HasColumn(df, c) THEN "KeyError"
    ELSE IF NRows(df) = 0 THEN "ValueError"
    ELSE IF \E c \in Range(columns), i \in 1..NRows(df) : df.rows[i][c][1] \notin {"num", "nan"}
    THEN "ValueError"
    ELSE "none"

\* the numbers of s in ascending order
RECURSIVE SortNums(_)
SortNums(s) ==
    IF s = <<>> THEN <<>>
    ELSE LET k == CHOOSE i \in 1..Len(s) : \A j \in 1..Len(s) : NumLeq(s[i], s[j])
         IN  <<s[k]>> \o SortNums(RemoveAt(s, k))

\* SimpleImputer.statistics_ of one column with an observed value
Statistic(values, strategy) ==
    LET obs == SortNums(Observed(values))
        n == Len(obs)
        count(v) == Cardinality({i \in 1..n : obs[i] = v})
    IN  CASE strategy = "mean" -> NumDiv(NumSum(obs), Whole(n))
          [] strategy = "median" ->
                 IF n % 2 = 1 THEN obs[(n + 1) \div 2]
                 ELSE NumDiv(NumAdd(obs[n \div 2], obs[n \div 2 + 1]), Whole(2))
          [] strategy = "most_frequent" ->
                 obs[CHOOSE i \in 1..n : /\ \A j \in 1..n : count(obs[j]) <= count(obs[i])
                                         /\ \A j \in 1..(i - 1) : count(obs[j]) < count(obs[i])]

\* SimpleImputer(strategy).fit(df[numeric_columns])
ImputerFit(df, numeric_columns, strategy) ==
    [kind |-> "imputer", strategy |-> strategy, columns |-> numeric_columns,
     statistics_ |-> [c \in Range(numeric_columns) |-> Statistic(Column(df, c), strategy)]]

\* df.loc[:, columns] = imputer.transform(df[columns])
ImputerTransform(imputer, df) ==
    WithColumns(df, imputer.columns,
                [c \in Range(imputer.columns) |->
                    [i \in 1..NRows(df) |->
                        IF IsNaN(df.rows[i][c]) THEN imputer.statistics_[c] ELSE df.rows[i][c]]])

\* [status, df, imputer]; a column without any observed value is dropped by
\* fit_transform and the assignment of the narrower array raises ValueError
_impute_numeric_features(df, numeric_columns, strategy) ==
    IF strategy = "none" \/ numeric_columns = <<>>
    THEN [status |-> "ok", df |-> df, imputer |-> NoTransformer]
    ELSE Let(ValidationError(df, numeric_columns),
             LAMBDA invalid :
                 IF invalid # "none" THEN Failed(invalid)
                 ELSE IF \E c \in Range(numeric_columns) : Observed(Column(df, c)) = <<>>
                 THEN Failed("ValueError")
                 ELSE Let(ImputerFit(df, numeric_columns, strategy),
                          LAMBDA imputer : [status |-> "ok", df |-> ImputerTransform(imputer, df),
                                            imputer |-> imputer]))

\* the parameters a scaler learns from one column, NaN cells disregarded:
\* mean_ and var_ (StandardScaler) or scale_ and min_ (MinMaxScaler); a zero
\* variance or range scales by 1
ScalerParams(values, cfg) ==
    LET obs == Observed(values)
        n == Len(obs)
    IN  IF n = 0 THEN [a |-> NaN, b |-> NaN]
        ELSE IF cfg.scaling_method = "standard"
        THEN LET mean == NumDiv(NumSum(obs), Whole(n))
                 sq(i) == NumMul(NumSub(obs[i], mean), NumSub(obs[i], mean))
             IN  [a |-> mean, b |-> NumDiv(NumSum([i \in 1..n |-> sq(i)]), Whole(n))]
        ELSE LET sorted == SortNums(obs)
                 range == NumSub(sorted[n], sorted[1])
                 width == NumSub(cfg.minmax_feature_range[2], cfg.minmax_feature_range[1])
                 scale == IF range = Whole(0) THEN width ELSE NumDiv(width, range)
             IN  [a |-> scale, b |-> NumSub(cfg.minmax_feature_range[1], NumMul(sorted[1], scale))]

\* scaler.fit(df[numeric_columns].astype(float))
ScalerFit(df, numeric_columns, cfg) ==
    [kind |-> cfg.scaling_method, columns |-> numeric_columns,
     params |-> [c \in Range(numeric_columns) |-> ScalerParams(Column(df, c), cfg)]]

\* one cell through the fitted scaler: (x - mean_) / sqrt(var_) as a signed
\* root, or x * scale_ + min_; NaN stays NaN
ScaleCell(kind, p, x) ==
    IF IsNaN(x) \/ IsNaN(p.a) THEN NaN
    ELSE IF kind = "standard"
    THEN LET d == NumSub(x, p.a)
         IN  Root(Sign(d), IF p.b = Whole(0) THEN NumMul(d, d) ELSE NumDiv(NumMul(d, d), p.b))
    ELSE NumAdd(NumMul(x, p.a), p.b)

\* df.loc[:, columns] = scaler.transform(df[columns])
ScalerTransform(scaler, df) ==
    WithColumns(df, scaler.columns,
                [c \in Range(scaler.columns) |->
                    [i \in 1..NRows(df) |-> ScaleCell(scaler.kind, scaler.params[c], df.rows[i][c])]])

\* [status, df, scaler]
\* a scaler fitted in every case, also on no column at all
_scale_numeric_features_on_nothing(df, numeric_columns, cfg) ==
    Let(ValidationError(df, numeric_columns),
        LAMBDA invalid :
            IF invalid # "none" THEN Failed(invalid)
            ELSE Let(ScalerFit(df, numeric_columns, cfg),
                     LAMBDA scaler : [status |-> "ok", df |-> ScalerTransform(scaler, df),
                                      scaler |-> scaler]))

_scale_numeric_features(df, numeric_columns, cfg) ==
    IF numeric_columns = <<>> THEN [status |-> "ok", df |-> df, scaler |-> NoTransformer]
    ELSE Let(ValidationError(df, numeric_columns),
             LAMBDA invalid :
                 IF invalid # "none" THEN Failed(invalid)
                 ELSE Let(ScalerFit(df, numeric_columns, cfg),
                          LAMBDA scaler : [status |-> "ok", df |-> ScalerTransform(scaler, df),
                                           scaler |-> scaler]))

\* the category labels of the model in the order of np.unique (code points)
CategoryOrder == <<"APD", "CAPD", "missing", "nan">>

\* Series.fillna("missing") and str(value) of a categorical cell
FillMissing(v) == IF IsNaN(v) THEN "missing" ELSE v[2]

AsTypeStr(v) == IF IsNaN(v) THEN "nan" ELSE v[2]

\* OneHotEncoder(handle_unknown="ignore").fit, or one LabelEncoder per column
EncoderFit(df, categorical_columns, encoding) ==
    [kind |-> encoding, columns |-> categorical_columns,
     categories_ |-> [c \in Range(categorical_columns) |->
         FilterSeq(CategoryOrder,
                   {IF encoding = "one_hot" THEN FillMissing(df.rows[i][c]) ELSE AsTypeStr(df.rows[i][c]) :
                        i \in 1..NRows(df)})]]

\* encoder.get_feature_names_out(columns): "<column>_<category>"
RECURSIVE FeatureNamesOut(_, _)
FeatureNamesOut(encoder, columns) ==
    IF columns = <<>> THEN <<>>
    ELSE LET c == Head(columns)
         IN  [k \in 1..Len(encoder.categories_[c]) |-> c \o "_" \o encoder.categories_[c][k]]
             \o FeatureNamesOut(encoder, Tail(columns))

\* pd.concat([df.drop(columns=categorical), encoded_df], axis=1): the indicator
\* columns of the fitted categories, an unknown category giving all zeros
OneHotTransform(encoder, df, encoded_columns) ==
    LET kept == FilterSeq(df.columns, Range(df.columns) \ Range(encoder.columns))
        indicator(i, name) ==
            IF \E c \in Range(encoder.columns) : name = c \o "_" \o FillMissing(df.rows[i][c])
            THEN Whole(1) ELSE Whole(0)
    IN  [index   |-> df.index,
         columns |-> kept \o encoded_columns,
         rows    |-> [i \in 1..NRows(df) |->
                        [k \in Range(kept) \cup Range(encoded_columns) |->
                            IF k \in Range(kept) THEN df.rows[i][k] ELSE indicator(i, k)]]]

\* LabelEncoder.transform raises ValueError on a label it was not fitted on
LabelUnseen(encoder, df, columns) ==
    \E c \in Range(columns), i \in 1..NRows(df) :
        AsTypeStr(df.rows[i][c]) \notin Range(encoder.categories_[c])

\* df[column] = le.transform(df[column].astype(str)) for each of columns
LabelTransform(encoder, df, columns) ==
    WithColumns(df, columns,
                [c \in Range(columns) |->
                    [i \in 1..NRows(df) |->
                        Whole((CHOOSE k \in 1..Len(encoder.categories_[c]) :
                                  encoder.categories_[c][k] = AsTypeStr(df.rows[i][c])) - 1)]])

\* [status, df, encoder, encoded_columns]
_encode_categorical_features(df, categorical_columns, encoding) ==
    IF categorical_columns = <<>>
    THEN [status |-> "ok", df |-> df, encoder |-> NoTransformer, encoded_columns |-> categorical_columns]
    ELSE IF \E c \in Range(categorical_columns) : ~HasColumn(df, c) THEN Failed("KeyError")
    ELSE LET encoder == EncoderFit(df, categorical_columns, encoding)
         IN  IF encoding = "one_hot"
             THEN LET encoded_columns == FeatureNamesOut(encoder, categorical_columns)
                  IN  [status |-> "ok", df |-> OneHotTransform(encoder, df, encoded_columns),
                       encoder |-> encoder, encoded_columns |-> encoded_columns]
             ELSE [status |-> "ok", df |-> LabelTransform(encoder, df, categorical_columns),
                   encoder |-> encoder, encoded_columns |-> categorical_columns]

----------------------------------------------------------------------------
(* steps/preprocessing.py: preprocess_dataset, apply_preprocessing_to_new_data *)

preprocess_dataset(data, cfg) ==
    Let(Then(Then(Then(Then(DeriveAndSplit(data, cfg),
            LAMBDA s : [numeric_columns |->
                           IF cfg.numeric_features # <<>> THEN cfg.numeric_features
                           ELSE FilterSeq(s.df.columns,
                                          {c \in Range(s.df.columns) : IsNumberColumn(s.df, c)})] @@ s),
            LAMBDA s : _impute_numeric_features(s.df, s.numeric_columns, cfg.imputation_strategy) @@ s),
            LAMBDA s : _scale_numeric_features(s.df, s.numeric_columns, cfg) @@ s),
            LAMBDA s : _encode_categorical_features(s.df, cfg.categorical_features,
                                                    cfg.categorical_encoding) @@ s),
        LAMBDA s :
            IF s.status # "ok" THEN Failed(s.error)
            ELSE [status    |-> "ok",
                  features  |-> s.df,
                  targets   |-> s.targets,
                  artifacts |-> [scaler  |-> s.scaler,
                                 encoder |-> s.encoder,
                                 imputer |-> s.imputer,
                                 feature_columns |-> s.df.columns,
                                 encoded_categorical_columns  |-> s.encoded_columns,
                                 original_categorical_columns |-> cfg.categorical_features,
                                 numeric_columns |-> s.numeric_columns]])

\* features[column] = value for every column of columns the frame lacks
RECURSIVE EnsureColumns(_, _, _)
EnsureColumns(df, columns, value) ==
    IF columns = <<>> THEN df
    ELSE EnsureColumns(IF HasColumn(df, Head(columns)) THEN df
                       ELSE WithColumn(df, Head(columns), [i \in 1..NRows(df) |-> value]),
                       Tail(columns), value)

\* lines 269-284: the stored encoder applied to the categorical columns present
ApplyEncoder(features, artifacts) ==
    LET categorical_columns ==
            FilterSeq(artifacts.original_categorical_columns, Range(features.columns))
    IN  IF artifacts.encoder = NoTransformer \/ categorical_columns = <<>>
        THEN [status |-> "ok", df |-> features]
        ELSE IF artifacts.encoder.kind = "one_hot"
        THEN IF categorical_columns # artifacts.encoder.columns THEN Failed("ValueError")
             ELSE [status |-> "ok",
                   df |-> OneHotTransform(artifacts.encoder, features,
                                          artifacts.encoded_categorical_columns)]
        ELSE IF LabelUnseen(artifacts.encoder, features, categorical_columns)
        THEN Failed("ValueError")
        ELSE [status |-> "ok", df |-> LabelTransform(artifacts.encoder, features, categorical_columns)]

\* a stored imputer or scaler applied to its columns; None (or no numeric
\* column) leaves the frame as it is
ApplyTransformer(transformer, df) ==
    IF transformer = NoTransformer \/ transformer.columns = <<>>
    THEN [status |-> "ok", df |-> df]
    ELSE Let(ValidationError(df, transformer.columns),
             LAMBDA invalid :
                 IF invalid # "none" THEN Failed(invalid)
                 ELSE [status |-> "ok",
                       df |-> IF transformer.kind = "imputer"
                              THEN ImputerTransform(transformer, df)
                              ELSE ScalerTransform(transformer, df)])

\* a slip: the stored imputer is not applied
ApplyNumericWithoutImputer(features, artifacts) ==
    ApplyTransformer(artifacts.scaler, EnsureColumns(features, artifacts.numeric_columns, NaN))

\* lines 259-267: the numeric columns of the artifacts, created as NaN where
\* the frame lacks them, through the stored imputer and then the stored scaler
ApplyNumeric(features, artifacts) ==
    Then(ApplyTransformer(artifacts.imputer,
                          EnsureColumns(features, artifacts.numeric_columns, NaN)),
         LAMBDA s : ApplyTransformer(artifacts.scaler, s.df))

\* a slip: the columns the frame lacks are filled with NaN
ReindexFillingNaN(features, feature_columns) ==
    SelectColumns(EnsureColumns(features, feature_columns, NaN), feature_columns)

\* lines 286-290: the columns of feature_columns, 0.0 where the frame lacks one
Reindex(features, feature_columns) ==
    SelectColumns(EnsureColumns(features, feature_columns, Whole(0)), feature_columns)

apply_preprocessing_to_new_data(data, cfg, artifacts) ==
    Let(Then(Then(DeriveAndSplit(data, cfg),
                  LAMBDA s : ApplyNumeric(s.df, artifacts) @@ s),
             LAMBDA s : ApplyEncoder(s.df, artifacts) @@ s),
        LAMBDA s :
            IF s.status # "ok" THEN Failed(s.error)
            ELSE [status   |-> "ok",
                  features |-> Reindex(s.df, artifacts.feature_columns),
                  targets  |-> s.targets])

----------------------------------------------------------------------------
(* pipelines/training_pipeline.py: preprocessing_step *)

\* a leak: the preprocessing is fitted on the train and the test rows
PreprocessingDataWithTest(so) ==
    [index   |-> so.train.index \o so.test.index,
     columns |-> so.train.columns,
     rows    |-> so.train.rows \o so.test.rows]

\* data=split_output.train
PreprocessingData(so) == so.train

TwinPreprocessing ==
    IF twin.split_output.status # "ok"
    THEN twin' = twin
    ELSE \E out \in {preprocess_dataset(PreprocessingData(twin.split_output), config.preprocessing)} :
            twin' = IF out.status = "ok"
                    THEN [twin EXCEPT !.preprocessing_output = out]
                    ELSE [twin EXCEPT !.failed = TRUE]

PreprocessingStep ==
    /\ pc = "preprocessing"
    /\ \E out \in {preprocess_dataset(PreprocessingData(split_output), config.preprocessing)} :
          \/ /\ out.status = "error"
             /\ pc' = "failed"
             /\ error' = out.error
             /\ UNCHANGED preprocessing_output
          \/ /\ out.status = "ok"
             /\ preprocessing_output' = out
             /\ pc' = "feature_selection"
             /\ UNCHANGED error
    /\ TwinPreprocessing
    /\ UNCHANGED <<warnings, config, heap, call, raw_data, split_output, lasso, feature_selection_output,
                   training_input, training_results, evaluation_summary, replay>>

----------------------------------------------------------------------------
(* Specification PreprocSpec: preprocess_dataset on a train set, then a     *)
(* direct call of apply_preprocessing_to_new_data with its artifacts        *)

MaxPreprocRows == 2

RawColumns ==
    <<"age", "weight_kg", "height_cm", "history_mi", "egfr_date", "pd_start",
      "tki_date", "assessment_date", "modality", "residual_rf", "ktv", "pet">>

\* the kinds of patient row of the model: two complete rows, a row of missing
\* values, a zero weight, a zero height with residual -1, a residual below -1
RowProfiles ==
    [age             |-> <<Whole(60), Whole(45), NaN, Whole(95), Whole(60), Whole(45)>>,
     weight_kg       |-> <<Whole(4), Whole(8), NaN, Whole(0), Whole(4), Whole(8)>>,
     height_cm       |-> <<Whole(100), Whole(200), Whole(100), Whole(100), Whole(0), Whole(200)>>,
     history_mi      |-> <<Whole(1), Whole(0), NaN, Whole(1), Whole(0), Whole(0)>>,
     egfr_date       |-> <<Date(0), Date(31), NaT, Date(0), Date(0), Date(31)>>,
     pd_start        |-> <<Date(14), Date(50), Date(60), Date(14), Date(14), Date(50)>>,
     tki_date        |-> <<Date(2), Date(24), Date(40), Date(2), Date(2), Date(24)>>,
     assessment_date |-> <<Date(59), Date(73), Date(90), Date(59), Date(59), Date(73)>>,
     modality        |-> <<Str("CAPD"), Str("APD"), NaN, Str("APD"), Str("CAPD"), Str("APD")>>,
     residual_rf     |-> <<Whole(0), Whole(3), NaN, Whole(1), Whole(0 - 1), Whole(0 - 2)>>,
     ktv             |-> <<Whole(2), Whole(1), NaN, Whole(2), Whole(1), Whole(2)>>,
     pet             |-> <<Whole(1), NaN, Whole(1), Whole(1), Whole(1), Whole(1)>>]

NumProfiles == Len(RowProfiles.age)

\* the dataset whose i-th row is of kind profiles[i]
Dataset(profiles) ==
    Frame([i \in 1..Len(profiles) |-> IntId(i - 1)], RawColumns,
          [i \in 1..Len(profiles) |-> [c \in Range(RawColumns) |-> RowProfiles[c][profiles[i]]]])

TrainDatasets == {Dataset(p) : p \in UNION {[1..n -> 1..NumProfiles] : n \in 1..MaxPreprocRows}}

\* the configuration of tests/steps/test_preprocessing.py
FullPreprocessingConfig ==
    [DefaultPreprocessingConfig EXCEPT
        !.log_transform_features = <<"residual_rf">>,
        !.time_column_map = [egfr_below_10_date |-> "egfr_date", pd_start_date |-> "pd_start",
                             tki_date |-> "tki_date", assessment_date |-> "assessment_date"],
        !.comorbidity_columns = << <<"history_mi", "myocardial_infarction">> >>,
        !.categorical_features = <<"modality">>]

\* every column of numbers that preprocess_dataset meets under the default
\* configuration: as targets they leave no numeric feature
NumberColumns ==
    <<"age", "weight_kg", "height_cm", "history_mi", "residual_rf", "bmi", "bsa",
      "charlson_index", "ktv", "pet">>

PreprocessingConfigs ==
    {FullPreprocessingConfig, DefaultPreprocessingConfig,
     [FullPreprocessingConfig EXCEPT !.scaling_method = "minmax"],
     [FullPreprocessingConfig EXCEPT !.categorical_encoding = "label"],
     [FullPreprocessingConfig EXCEPT !.numeric_features = <<"age", "residual_rf">>],
     [FullPreprocessingConfig EXCEPT !.weight_column = ""],
     [FullPreprocessingConfig EXCEPT !.scaling_method = "minmax", !.imputation_strategy = "mean"],
     [DefaultPreprocessingConfig EXCEPT !.imputation_strategy = "mean"]}
    \cup {[FullPreprocessingConfig EXCEPT !.imputation_strategy = s] :
             s \in {"mean", "median", "most_frequent"}}
    \cup {[DefaultPreprocessingConfig EXCEPT
               !.target_columns = NumberColumns, !.imputation_strategy = s,
               !.categorical_features = categorical] :
             s \in {"none", "mean"}, categorical \in {<<>>, <<"modality">>}}

\* the new datasets of a direct call: the train set itself, or one row of any
\* kind without some column or with a column the train set did not have
NewDatasets(train) ==
    {train}
    \cup {DropColumns(Dataset(<<k>>), dropped) :
             k \in 1..NumProfiles,
             dropped \in {{}, {"age"}, {"modality"}, {"weight_kg"}, {"residual_rf"}, {"egfr_date"}}}
    \cup {WithColumn(Dataset(<<k>>), "extra", <<Whole(7)>>) : k \in 1..NumProfiles}

ReplayStep ==
    /\ pc = "feature_selection"
    /\ replay = Unset
    /\ heap = Unset
    /\ call = Unset
    /\ \E data \in NewDatasets(split_output.train) :
          \E out \in {apply_preprocessing_to_new_data(data, config.preprocessing,
                                                      preprocessing_output.artifacts)} :
             replay' = IF out.status = "ok"
                       THEN [status |-> "ok", data |-> data,
                             features |-> out.features, targets |-> out.targets]
                       ELSE [status |-> "error", data |-> data, error |-> out.error]
    /\ UNCHANGED <<pc, error, warnings, config, heap, call, raw_data, split_output, preprocessing_output,
                   lasso, feature_selection_output, training_input, training_results,
                   evaluation_summary, twin>>

InitPreproc ==
    /\ pc = "preprocessing"
    /\ \E cfg \in PreprocessingConfigs : config = [DefaultConfig EXCEPT !.preprocessing = cfg]
    /\ raw_data = EmptyFrame
    /\ twin = TwinUnset
    /\ \E train \in TrainDatasets :
          split_output = [status |-> "ok", train |-> train, test |-> EmptyFrame,
                          test_indices |-> <<>>]
    /\ error = "none"
    /\ warnings = {}
    /\ preprocessing_output = Unset
    /\ lasso = Unset
    /\ feature_selection_output = Unset
    /\ training_input = Unset
    /\ training_results = Unset
    /\ evaluation_summary = Unset
    /\ replay = Unset
    /\ heap = Unset
    /\ call = Unset

NextPreproc == PreprocessingStep \/ ReplayStep

PreprocSpec == InitPreproc /\ [][NextPreproc]_vars

\* C3: a call of apply_preprocessing_to_new_data on the dataset the
\* artifacts were fitted on succeeds and returns the fit-time features (same
\* columns, same order, same cells) and the fit-time targets
C3_RoundTrip ==
    (replay # Unset /\ replay.data = split_output.train)
        => /\ replay.status = "ok"
           /\ replay.features = preprocessing_output.features
           /\ replay.targets = preprocessing_output.targets

\* a round trip through imputer, scaler and encoder on rows with missing values
C3_Witness ==
    /\ replay # Unset
    /\ replay.status = "ok"
    /\ replay.data = split_output.train
    /\ NRows(replay.data) = 2
    /\ config.preprocessing.imputation_strategy = "median"
    /\ "modality_missing" \in Range(replay.features.columns)
    /\ \E i \in 1..2 : replay.features.rows[i]["pd_period_days"] \notin {NaN, Root(0, Whole(0))}

\* the feature columns a new dataset supplies: the feature columns it has
\* after the derivations, and the encoded columns when it has the
\* categorical ones
SuppliedColumns ==
    Let(DeriveAndSplit(replay.data, config.preprocessing).df.columns,
        LAMBDA columns :
            Range(columns)
            \cup (IF Range(preprocessing_output.artifacts.original_categorical_columns)
                        \subseteq Range(columns)
                  THEN Range(preprocessing_output.artifacts.encoded_categorical_columns)
                  ELSE {}))

\* the value 0.0
IsZero(v) == v \in {Whole(0), Root(0, Whole(0))}

\* NaN through the stored imputer and scaler of a numeric column
MissingNumericCell(artifacts, c) ==
    LET imputed == IF artifacts.imputer # NoTransformer THEN artifacts.imputer.statistics_[c] ELSE NaN
    IN  IF artifacts.scaler # NoTransformer
        THEN ScaleCell(artifacts.scaler.kind, artifacts.scaler.params[c], imputed)
        ELSE imputed

\* C4 as stated: the returned columns are artifacts.feature_columns, and every
\* one of them that the new dataset does not supply is 0.0 in every row
C4_MissingColumnsAreZero ==
    (replay # Unset /\ replay.status = "ok")
        => /\ replay.features.columns = preprocessing_output.artifacts.feature_columns
           /\ \A c \in Range(preprocessing_output.artifacts.feature_columns) \ SuppliedColumns :
                 \A i \in 1..NRows(replay.features) : IsZero(replay.features.rows[i][c])

\* C4 amended: the returned columns are artifacts.feature_columns (any other
\* column is dropped); one the new dataset does not supply holds, in every
\* row, NaN passed through the stored imputer and scaler when it is a numeric
\* column of the artifacts, and 0.0 otherwise
C4_MissingColumnsAreImputedOrZero ==
    (replay # Unset /\ replay.status = "ok")
        => /\ replay.features.columns = preprocessing_output.artifacts.feature_columns
           /\ replay.features.index = replay.data.index
           /\ \A c \in Range(preprocessing_output.artifacts.feature_columns) \ SuppliedColumns :
                 \A i \in 1..NRows(replay.features) :
                    replay.features.rows[i][c] =
                        IF c \in Range(preprocessing_output.artifacts.numeric_columns)
                        THEN MissingNumericCell(preprocessing_output.artifacts, c)
                        ELSE Whole(0)

\* a new dataset without the numeric column age and one without the
\* categorical column: age is not 0.0, the encoded columns are
C4_Witness ==
    /\ replay # Unset
    /\ replay.status = "ok"
    /\ \/ /\ ~HasColumn(replay.data, "age")
          /\ ~IsZero(replay.features.rows[1]["age"])
          /\ config.preprocessing.imputation_strategy = "median"
       \/ /\ ~HasColumn(replay.data, "modality")
          /\ "modality_APD" \in Range(replay.features.columns)
          /\ replay.features.rows[1]["modality_APD"] = Whole(0)

----------------------------------------------------------------------------
(* steps/model_training.py *)

\* Series.dropna() of a column: [index, values] of the rows that have a value
dropna(df, c) ==
    Let(FilterSeq([j \in 1..NRows(df) |-> j], {j \in 1..NRows(df) : ~IsNaN(df.rows[j][c])}),
        LAMBDA pos : [index  |-> [i \in 1..Len(pos) |-> df.index[pos[i]]],
                      values |-> [i \in 1..Len(pos) |-> df.rows[pos[i]][c]]])

\* check_array of the linear estimators: ValueError on a matrix without a
\* column or with a cell that is not a finite number
NotFiniteMatrix(X) ==
    \/ X.columns = <<>>
    \/ \E i \in 1..NRows(X), c \in Range(X.columns) : X.rows[i][c][1] \notin {"num", "root"}

\* estimator.fit(X, y) without a search space: the fitted estimator is a
\* function of what fit received, and is represented by it; feature_names_in
\* is what sklearn records of the frame's columns
_fit_with_random_search(model_def, X, y) ==
    [kind |-> model_def.model_type, feature_names_in |-> X.columns, X |-> X, y |-> y]

\* ModelMetrics of the train predictions: each score is a function of y and
\* of the estimator's predictions on X, and is represented by the rows it
\* was computed over
_compute_metrics(y, model_type) ==
    [r2  |-> <<"r2_score", model_type, y.index>>,
     mae |-> <<"mean_absolute_error", model_type, y.index>>,
     mse |-> <<"mean_squared_error", model_type, y.index>>]

\* a reading slip: a target without any observation is not skipped
SkippedOnlyIfAbsent(targets, target_name) == ~HasColumn(targets, target_name)

\* lines 194-201: the target has no column, or no value that is not missing
Skipped(targets, target_name) ==
    \/ ~HasColumn(targets, target_name)
    \/ dropna(targets, target_name).index = <<>>

\* the fields of a ModelDefinition that a definition of the model leaves out
\* have their defaults: no search space, no quantiles, no base models, 5 folds
SearchSpaceOf(model_def) ==
    IF "search_space" \in DOMAIN model_def THEN model_def.search_space ELSE <<>>

QuantilesOf(model_def) ==
    IF "quantiles" \in DOMAIN model_def THEN model_def.quantiles ELSE <<>>

BaseModelsOf(model_def) ==
    IF "base_models" \in DOMAIN model_def THEN model_def.base_models ELSE <<>>

FoldsOf(model_def) ==
    IF "cross_validation_folds" \in DOMAIN model_def THEN model_def.cross_validation_folds ELSE 5

\* the keys of a dict in insertion order, after the items were assigned in
\* the order of the sequence: a repeated key keeps its first place
RECURSIVE DictKeys(_)
DictKeys(items) ==
    IF items = <<>> THEN <<>>
    ELSE LET front == DictKeys(SubSeq(items, 1, Len(items) - 1))
         IN  IF items[Len(items)] \in Range(front) THEN front
             ELSE Append(front, items[Len(items)])

\* _instantiate_estimator for "quantile_lightgbm": the keys of quantile_models
quantile_models(model_def) ==
    DictKeys(IF QuantilesOf(model_def) = <<>> THEN <<Num(1, 2)>> ELSE QuantilesOf(model_def))

\* _instantiate_estimator raises ValueError: a stacked definition without a
\* base model, at any depth
RECURSIVE InstantiateFails(_)
InstantiateFails(model_def) ==
    /\ model_def.model_type = "stacked"
    /\ \/ BaseModelsOf(model_def) = <<>>
       \/ \E i \in DOMAIN BaseModelsOf(model_def) : InstantiateFails(BaseModelsOf(model_def)[i])

\* abs(val - 0.5)
DistanceToMedian(val) ==
    IF NumLess(val, Num(1, 2)) THEN NumSub(Num(1, 2), val) ELSE NumSub(val, Num(1, 2))

\* min(tuned_estimators.keys(), key=lambda val: abs(val - 0.5)): the first
\* of the keys that are nearest to 0.5
RECURSIVE median_q(_)
median_q(keys) ==
    IF Len(keys) = 1 THEN keys[1]
    ELSE LET later == median_q(Tail(keys))
         IN  IF NumLeq(DistanceToMedian(Head(keys)), DistanceToMedian(later))
             THEN Head(keys) ELSE later

\* RandomizedSearchCV.fit and StackingRegressor.fit split the rows into
\* folds: ValueError with fewer rows than folds
TooFewRows(X, folds) == NRows(X) < folds

\* what _fit_with_random_search raises on an estimator of this definition,
\* "none" when it returns.  A dict of quantile estimators has no fit method
\* and is no estimator for a search; the linear estimators and the
\* meta-learner of a stack need a matrix of finite numbers, LightGBM only
\* a column
RECURSIVE FitError(_, _)
FitError(model_def, X) ==
    IF model_def.model_type = "quantile_lightgbm"
    THEN IF SearchSpaceOf(model_def) = <<>> THEN "AttributeError" ELSE "TypeError"
    ELSE IF SearchSpaceOf(model_def) # <<>> /\ TooFewRows(X, FoldsOf(model_def)) THEN "ValueError"
    ELSE IF model_def.model_type = "stacked"
    THEN IF TooFewRows(X, 5) THEN "ValueError"
         ELSE IF \E i \in DOMAIN BaseModelsOf(model_def) :
                    FitError(BaseModelsOf(model_def)[i], X) # "none"
         THEN FitError(BaseModelsOf(model_def)[
                  CHOOSE i \in DOMAIN BaseModelsOf(model_def) :
                      /\ FitError(BaseModelsOf(model_def)[i], X) # "none"
                      /\ \A j \in 1..(i - 1) : FitError(BaseModelsOf(model_def)[j], X) = "none"], X)
         ELSE "none"
    ELSE IF NotFiniteMatrix(X) THEN "ValueError"
    ELSE "none"

\* what the fit of one quantile estimator raises, "none" when it returns
QuantileFitError(model_def, X) ==
    IF X.columns = <<>> THEN "ValueError"
    ELSE IF SearchSpaceOf(model_def) # <<>> /\ TooFewRows(X, FoldsOf(model_def)) THEN "ValueError"
    ELSE "none"

\* best_params and best_score of _fit_with_random_search: {} and None
\* without a search space, else what the search found in the space
SearchResult(search_space) ==
    IF search_space = <<>> THEN [best_params |-> <<>>, best_score |-> None]
    ELSE [best_params |-> <<"best_params_", search_space>>,
          best_score  |-> <<"best_score_", search_space>>]

\* extras of a model fitted by _fit_with_random_search: best_params and
\* best_score, cv_results after a search, and the train predictions
SearchExtras(search_space, y) ==
    IF search_space = <<>>
    THEN [best_params |-> <<>>, best_score |-> None,
          train_predictions |-> <<"predict", y.index>>]
    ELSE [best_params |-> <<"best_params_", search_space>>,
          best_score  |-> <<"best_score_", search_space>>,
          cv_results  |-> <<"cv_results_", search_space>>,
          train_predictions |-> <<"predict", y.index>>]

\* extras of a quantile ensemble; a dict keyed by str(q) is represented by
\* its keys, and best_params and best_score have a key per quantile only
\* after a search
QuantileExtras(model_def, y) ==
    [quantiles   |-> IF QuantilesOf(model_def) = <<>> THEN <<Num(1, 2)>> ELSE QuantilesOf(model_def),
     best_params |-> IF SearchSpaceOf(model_def) = <<>> THEN <<>> ELSE quantile_models(model_def),
     best_score  |-> IF SearchSpaceOf(model_def) = <<>> THEN <<>> ELSE quantile_models(model_def),
     train_quantile_predictions |-> quantile_models(model_def),
     train_predictions          |-> <<"predict", y.index>>]

\* the fit calls of the base learners of a stacked definition from base i
\* on, in base_models order, up to the first that raises
RECURSIVE BaseLoop(_, _, _, _, _)
BaseLoop(model_def, target_name, X, i, done) ==
    IF i > Len(BaseModelsOf(model_def)) THEN [status |-> "ok"] @@ done
    ELSE Let(BaseModelsOf(model_def)[i],
             LAMBDA base_def :
                 Let([base_infos |-> done.base_infos,
                      fit_calls  |-> Append(done.fit_calls,
                                        [target |-> target_name, model_type |-> base_def.model_type,
                                         part |-> "base", idx |-> i - 1,
                                         search |-> SearchSpaceOf(base_def) # <<>>])],
                     LAMBDA called :
                         IF FitError(base_def, X) # "none"
                         THEN Failed(FitError(base_def, X)) @@ called
                         ELSE BaseLoop(model_def, target_name, X, i + 1,
                                  [base_infos |->
                                      Append(done.base_infos,
                                          [name |-> base_def.model_type \o "_" \o IntToStr(i - 1)]
                                          @@ SearchResult(SearchSpaceOf(base_def))),
                                   fit_calls |-> called.fit_calls])))

\* the body of the loop over target_config.models for one definition:
\* [status, result, fit_calls], result being the ModelResult.  For a
\* quantile ensemble result.primary is median_q, the quantile whose
\* predictions are y_pred and enter the metrics.
TrainModel(model_def, target_name, X, y) ==
    IF InstantiateFails(model_def) THEN Failed("ValueError") @@ [fit_calls |-> <<>>]
    ELSE IF model_def.model_type = "quantile_lightgbm"
    THEN IF QuantileFitError(model_def, X) # "none"
         THEN Failed(QuantileFitError(model_def, X))
              @@ [fit_calls |-> <<[target |-> target_name, model_type |-> model_def.model_type,
                                   quantile |-> quantile_models(model_def)[1]]>>]
         ELSE [status |-> "ok",
               result |->
                   [name      |-> model_def.model_type,
                    estimator |-> [quantiles |-> quantile_models(model_def)]
                                  @@ _fit_with_random_search(model_def, X, y),
                    metrics   |-> _compute_metrics(y, model_def.model_type),
                    primary   |-> median_q(quantile_models(model_def)),
                    extras    |-> QuantileExtras(model_def, y)],
               fit_calls |->
                   [k \in 1..Len(quantile_models(model_def)) |->
                       [target |-> target_name, model_type |-> model_def.model_type,
                        quantile |-> quantile_models(model_def)[k]]]]
    ELSE IF model_def.model_type = "stacked"
    THEN Let(BaseLoop(model_def, target_name, X, 1, [base_infos |-> <<>>, fit_calls |-> <<>>]),
             LAMBDA bases :
                 IF bases.status # "ok" THEN Failed(bases.error) @@ [fit_calls |-> bases.fit_calls]
                 ELSE Let(Append(bases.fit_calls,
                                 [target |-> target_name, model_type |-> model_def.model_type]),
                          LAMBDA fit_calls :
                              IF FitError(model_def, X) # "none"
                              THEN Failed(FitError(model_def, X)) @@ [fit_calls |-> fit_calls]
                              ELSE [status |-> "ok",
                                    result |->
                                        [name      |-> model_def.model_type,
                                         estimator |-> _fit_with_random_search(model_def, X, y),
                                         metrics   |-> _compute_metrics(y, model_def.model_type),
                                         extras    |-> [base_models |-> bases.base_infos]
                                                       @@ SearchExtras(SearchSpaceOf(model_def), y)],
                                    fit_calls |-> fit_calls]))
    ELSE IF FitError(model_def, X) # "none"
    THEN Failed(FitError(model_def, X))
         @@ [fit_calls |-> <<[target |-> target_name, model_type |-> model_def.model_type]>>]
    ELSE [status |-> "ok",
          result |-> [name      |-> model_def.model_type,
                      estimator |-> _fit_with_random_search(model_def, X, y),
                      metrics   |-> _compute_metrics(y, model_def.model_type),
                      extras    |-> SearchExtras(SearchSpaceOf(model_def), y)],
          fit_calls |-> <<[target |-> target_name, model_type |-> model_def.model_type]>>]

\* the loop over target_config.models from model k on: the ModelResults and
\* the fit calls so far, up to the first definition that raises
RECURSIVE ModelLoop(_, _, _, _, _)
ModelLoop(target_config, X, y, k, done) ==
    IF k > Len(target_config.models) THEN [status |-> "ok"] @@ done
    ELSE Let(TrainModel(target_config.models[k], target_config.target, X, y),
             LAMBDA trained :
                 IF trained.status # "ok" THEN Failed(trained.error)
                 ELSE ModelLoop(target_config, X, y, k + 1,
                                [models    |-> Append(done.models, trained.result),
                                 fit_calls |-> done.fit_calls \o trained.fit_calls]))

\* the loop of train_models from configured target i on; results.targets is
\* the dict, results.order the order in which its keys were inserted and
\* results.fit_calls the estimators fitted so far
RECURSIVE TrainLoop(_, _, _, _)
TrainLoop(ti, target_configs, i, results) ==
    IF i > Len(target_configs) THEN [status |-> "ok"] @@ results
    ELSE IF Skipped(ti.targets, target_configs[i].target)
    THEN TrainLoop(ti, target_configs, i + 1, results)
    ELSE Let(dropna(ti.targets, target_configs[i].target),
             LAMBDA y :
                 Let(ModelLoop(target_configs[i], Aligned(ti.features, y), y, 1,
                               [models |-> <<>>, fit_calls |-> <<>>]),
                     LAMBDA trained :
                         IF trained.status # "ok" THEN Failed(trained.error)
                         ELSE TrainLoop(ti, target_configs, i + 1,
                                [targets |->
                                    (target_configs[i].target :> trained.models)
                                    @@ results.targets,
                                 order |->
                                    IF target_configs[i].target \in Range(results.order)
                                    THEN results.order
                                    ELSE Append(results.order, target_configs[i].target),
                                 fit_calls |-> results.fit_calls \o trained.fit_calls])))

train_models(ti, cfg) ==
    TrainLoop(ti, cfg.targets, 1, [targets |-> <<>>, order |-> <<>>, fit_calls |-> <<>>])

----------------------------------------------------------------------------
(* pipelines/training_pipeline.py: model_training_step *)

TwinModelTraining ==
    IF twin.training_input.status # "ok"
    THEN twin' = twin
    ELSE \E out \in {train_models(twin.training_input, config.model_training)} :
            twin' = IF out.status = "ok"
                    THEN [twin EXCEPT !.training_results = out]
                    ELSE [twin EXCEPT !.failed = TRUE]

ModelTrainingStep ==
    /\ pc = "model_training"
    /\ \E out \in {train_models(training_input, config.model_training)} :
          \/ /\ out.status = "error"
             /\ pc' = "failed"
             /\ error' = out.error
             /\ UNCHANGED training_results
          \/ /\ out.status = "ok"
             /\ training_results' = out
             /\ pc' = "evaluation"
             /\ UNCHANGED error
    /\ TwinModelTraining
    /\ UNCHANGED <<warnings, config, heap, call, raw_data, split_output, preprocessing_output, lasso,
                   feature_selection_output, training_input, evaluation_summary, replay>>

----------------------------------------------------------------------------
(* steps/evaluation.py *)

\* estimator.predict(X_test) raises ValueError: another number of features
\* than fit saw, a cell that is not a finite number, or other feature names
\* (or another order of them) than fit saw.  The last one is an error from
\* scikit-learn 1.2 on and a warning before; the repository pins no version,
\* so rejects_names is either.
PredictFails(estimator, X_test, rejects_names) ==
    \/ Len(X_test.columns) # Len(estimator.feature_names_in)
    \/ rejects_names /\ X_test.columns # estimator.feature_names_in
    \/ NotFiniteMatrix(X_test)

\* str(quantile) of the quantiles of the model: repr of the float
StrOfFloat(q) ==
    CASE q = Num(1, 8) -> "0.125"
      [] q = Num(1, 4) -> "0.25"
      [] q = Num(1, 2) -> "0.5"
      [] q = Num(3, 4) -> "0.75"
      [] q = Num(7, 8) -> "0.875"

\* float(text) of the texts above
FloatOfStr(text) ==
    CASE text = "0.125" -> Num(1, 8)
      [] text = "0.25"  -> Num(1, 4)
      [] text = "0.5"   -> Num(1, 2)
      [] text = "0.75"  -> Num(3, 4)
      [] text = "0.875" -> Num(7, 8)

\* a reading slip: of the quantiles nearest to 0.5, the last one
RECURSIVE median_quantile_last(_)
median_quantile_last(texts) ==
    IF Len(texts) = 1 THEN FloatOfStr(texts[1])
    ELSE LET later == median_quantile_last(Tail(texts))
         IN  IF NumLess(DistanceToMedian(FloatOfStr(Head(texts))), DistanceToMedian(later))
             THEN FloatOfStr(Head(texts)) ELSE later

\* min((float(q) for q in predictions.keys()), key=lambda val: abs(val - 0.5)):
\* the first of the keys, read as floats, that are nearest to 0.5
RECURSIVE median_quantile(_)
median_quantile(texts) ==
    IF Len(texts) = 1 THEN FloatOfStr(texts[1])
    ELSE LET later == median_quantile(Tail(texts))
         IN  IF NumLeq(DistanceToMedian(FloatOfStr(Head(texts))), DistanceToMedian(later))
             THEN FloatOfStr(Head(texts)) ELSE later

\* the keys of predictions: str(quantile) of the keys of the estimator dict,
\* in their order
PredictionKeys(estimator) == DictKeys([k \in DOMAIN estimator.quantiles |-> StrOfFloat(estimator.quantiles[k])])

\* model_result.estimator.predict(X_test), or the predict of the first
\* quantile estimator, raises ValueError.  LightGBM takes missing cells and
\* does not compare the feature names.
ModelPredictFails(model_result, X_test, rejects_names) ==
    IF "quantiles" \in DOMAIN model_result.estimator
    THEN Len(X_test.columns) # Len(model_result.estimator.feature_names_in)
    ELSE PredictFails(model_result.estimator, X_test, rejects_names)

\* extras after the assignments of lines 138-160 to a mapping that held
\* the entries of extras before
TestExtras(model_result, y_true, extras) ==
    IF "quantiles" \in DOMAIN model_result.estimator
    THEN [quantile_predictions_test |-> PredictionKeys(model_result.estimator),
          y_true_test |-> y_true.values,
          y_pred_test |-> <<"predict", y_true.index>>]
         @@ extras
    ELSE [y_true_test |-> y_true.values, y_pred_test |-> <<"predict", y_true.index>>]
         @@ extras

\* the ModelEvaluation of one ModelResult.  For a dict of quantile
\* estimators primary is str(median_quantile), the key of the predictions
\* that are y_pred and enter the metrics.
ModelEvaluationOf(model_result, y_true) ==
    IF "quantiles" \in DOMAIN model_result.estimator
    THEN [name        |-> model_result.name,
          y_true_test |-> y_true.values,
          primary     |-> StrOfFloat(median_quantile(PredictionKeys(model_result.estimator))),
          extras      |-> TestExtras(model_result, y_true, model_result.extras)]
    ELSE [name        |-> model_result.name,
          y_true_test |-> y_true.values,
          extras      |-> TestExtras(model_result, y_true, model_result.extras)]

\* the predict call of model k of a target: the columns of the matrix passed
PredictCall(target_name, k, X_test) ==
    [target |-> target_name, model |-> k, columns |-> X_test.columns]

\* a reading slip: a target without any test observation is not skipped
EvalSkippedOnlyIfAbsent(processed_targets, target_name) ==
    ~HasColumn(processed_targets, target_name)

\* lines 113-120: the replayed test targets have no such column, or no value
\* of it that is not missing
EvalSkipped(processed_targets, target_name) ==
    \/ ~HasColumn(processed_targets, target_name)
    \/ dropna(processed_targets, target_name).index = <<>>

\* a reading slip: the plots are made whatever generate_plots says
PlotsAlways(cfg, plots, kind, target_name) ==
    (target_name :> <<kind, target_name>>) @@ plots

\* lines 169-176: the plot map with the path of the target's plot, which
\* stands for output_dir / f"{kind}_{target_name}.png"
Plots(cfg, plots, kind, target_name) ==
    IF cfg.generate_plots THEN (target_name :> <<kind, target_name>>) @@ plots ELSE plots

\* _plot_discrimination reads getattr(evaluation.metrics, metric_name), an
\* AttributeError unless the name is a field of EvaluationMetrics
PlotFails(cfg) == cfg.generate_plots /\ cfg.comparison_metric \notin {"r2", "mae", "mse"}

\* the first model of the target whose predict raises
FirstFailing(models, X_test, rejects_names) ==
    CHOOSE k \in DOMAIN models :
        /\ ModelPredictFails(models[k], X_test, rejects_names)
        /\ \A j \in 1..(k - 1) : ~ModelPredictFails(models[j], X_test, rejects_names)

\* no target evaluated, no plot made, no predict call yet
NothingEvaluated ==
    [targets |-> <<>>, discrimination_plots |-> <<>>, calibration_plots |-> <<>>,
     predict_calls |-> <<>>]

\* the loop of evaluate_models from trained target i on; summary.targets is
\* the dict of TargetEvaluation, summary.predict_calls the predict calls made
RECURSIVE EvalLoop(_, _, _, _, _, _, _)
EvalLoop(tr, ti, processed, cfg, rejects_names, i, summary) ==
    IF i > Len(tr.order) THEN [status |-> "ok"] @@ summary
    ELSE IF EvalSkipped(processed.targets, tr.order[i])
    THEN EvalLoop(tr, ti, processed, cfg, rejects_names, i + 1, summary)
    ELSE Let(dropna(processed.targets, tr.order[i]),
      LAMBDA y_true :
        Let(IF tr.order[i] \in DOMAIN ti.selected_feature_map
            THEN ti.selected_feature_map[tr.order[i]]
            ELSE processed.features.columns,
          LAMBDA feature_subset :
            IF ~(Range(feature_subset) \subseteq Range(processed.features.columns))
            THEN Failed("KeyError") @@ summary
            ELSE Let(SelectColumns(Aligned(processed.features, y_true), feature_subset),
              LAMBDA X_test :
                IF \E k \in DOMAIN tr.targets[tr.order[i]] :
                       ModelPredictFails(tr.targets[tr.order[i]][k], X_test, rejects_names)
                THEN Failed("ValueError")
                     @@ [predict_calls |->
                            summary.predict_calls \o
                            [k \in 1..FirstFailing(tr.targets[tr.order[i]], X_test, rejects_names) |->
                                PredictCall(tr.order[i], k, X_test)]]
                     @@ summary
                ELSE Let([targets |->
                             (tr.order[i] :>
                                 [k \in 1..Len(tr.targets[tr.order[i]]) |->
                                     ModelEvaluationOf(tr.targets[tr.order[i]][k], y_true)])
                             @@ summary.targets,
                          discrimination_plots |->
                             Plots(cfg, summary.discrimination_plots, "discrimination", tr.order[i]),
                          calibration_plots |->
                             Plots(cfg, summary.calibration_plots, "calibration", tr.order[i]),
                          predict_calls |->
                             summary.predict_calls \o
                             [k \in 1..Len(tr.targets[tr.order[i]]) |->
                                 PredictCall(tr.order[i], k, X_test)]],
                       LAMBDA evaluated :
                         IF PlotFails(cfg)
                         THEN Failed("AttributeError")
                              @@ [discrimination_plots |-> summary.discrimination_plots,
                                  calibration_plots |-> summary.calibration_plots]
                              @@ evaluated
                         ELSE EvalLoop(tr, ti, processed, cfg, rejects_names, i + 1,
                                       evaluated)))))

\* [status, targets, discrimination_plots, calibration_plots, predict_calls],
\* and the error when it raised
evaluate_models(tr, ti, so, preprocessing_config, cfg, rejects_names) ==
    Let(apply_preprocessing_to_new_data(so.test, preprocessing_config, ti.artifacts),
        LAMBDA processed :
            IF processed.status # "ok"
            THEN Failed(processed.error) @@ NothingEvaluated
            ELSE EvalLoop(tr, ti, processed, cfg, rejects_names, 1, NothingEvaluated))

----------------------------------------------------------------------------
(* pipelines/training_pipeline.py: evaluation_step *)

TwinEvaluation(rejects_names) ==
    IF twin.training_results.status # "ok"
    THEN twin' = twin
    ELSE \E out \in {evaluate_models(twin.training_results, twin.training_input,
                                     twin.split_output, config.preprocessing,
                                     config.evaluation, rejects_names)} :
            twin' = [twin EXCEPT !.evaluation_summary = out,
                                 !.failed = (out.status # "ok")]

\* a reading slip: no copy is made, the name is bound to the same object
CopyOfSame(object) == object

\* DataFrame.copy() and dict(mapping) make a new object, which the caller
\* of evaluate_models does not hold.  An object is named by its path from
\* the arguments of evaluate_models.
CopyOf(object) == <<"copy">> \o object

\* the value of the caller's object after an assignment into written_object
\* that leaves the value written there
AfterWrite(caller_object, written_object, before, written) ==
    IF written_object = caller_object THEN written ELSE before

\* df = data.copy() of apply_preprocessing_to_new_data after the call:
\* _derive_body_metrics, df["charlson_index"] = ... and _apply_log_transform
\* assign columns to it, unless _derive_time_metrics has returned a new
\* frame before; the frames after them are new objects
WorkingFrameAfter(data, cfg) ==
    Let(_derive_body_metrics(data, cfg),
        LAMBDA body :
            IF body.status # "ok" THEN data
            ELSE IF DOMAIN cfg.time_column_map # {} THEN body.df
            ELSE Let(WithColumn(body.df, "charlson_index", _compute_cci(body.df, cfg)),
                     LAMBDA scored :
                         Let(_apply_log_transform(scored, cfg.log_transform_features),
                             LAMBDA logged :
                                 IF logged.status = "ok" THEN logged.df ELSE scored)))

\* split_output after evaluate_models: the assignments go to the copy
\* (preprocessing.py 250) of the copy (evaluation.py 101) of the test split
SplitOutputAfter(so, cfg) ==
    [so EXCEPT !.test = AfterWrite(<<"split_output", "test">>,
                                   CopyOf(CopyOf(<<"split_output", "test">>)),
                                   so.test, WorkingFrameAfter(so.test, cfg))]

\* training_results after evaluate_models has returned out: the
\* assignments of lines 138-160 go to extras = dict(model_result.extras)
TrainingResultsAfter(tr, out) ==
    [tr EXCEPT !.targets =
        [t \in DOMAIN tr.targets |->
            [k \in DOMAIN tr.targets[t] |->
                [tr.targets[t][k] EXCEPT !.extras =
                    IF t \in DOMAIN out.targets
                    THEN AfterWrite(<<"extras", t, IntToStr(k)>>,
                                    CopyOf(<<"extras", t, IntToStr(k)>>),
                                    tr.targets[t][k].extras, out.targets[t][k].extras)
                    ELSE tr.targets[t][k].extras]]]]

\* evaluation_summary also keeps what a failed evaluation had done
EvaluationStep ==
    /\ pc = "evaluation"
    /\ \E rejects_names \in BOOLEAN :
          /\ \E out \in {evaluate_models(training_results, training_input, split_output,
                                         config.preprocessing, config.evaluation,
                                         rejects_names)} :
                /\ evaluation_summary' = out
                /\ split_output' = SplitOutputAfter(split_output, config.preprocessing)
                /\ training_results' = TrainingResultsAfter(training_results, out)
                /\ \/ /\ out.status = "error"
                      /\ pc' = "failed"
                      /\ error' = out.error
                   \/ /\ out.status = "ok"
                      /\ pc' = "done"
                      /\ UNCHANGED error
          /\ TwinEvaluation(rejects_names)
    /\ UNCHANGED <<warnings, config, heap, call, raw_data, preprocessing_output, lasso,
                   feature_selection_output, training_input, replay>>

----------------------------------------------------------------------------
(* utils/dataframe.py and steps/data_ingestion.py.  A sheet as read by      *)
(* pd.read_excel has a RangeIndex and columns that are tuples of header     *)
(* parts (one part for a single header row).                                *)

\* sep.join(parts)
RECURSIVE Join(_, _)
Join(parts, sep) ==
    IF parts = <<>> THEN ""
    ELSE IF Len(parts) = 1 THEN parts[1]
    ELSE parts[1] \o sep \o Join(Tail(parts), sep)

\* the parts of a header tuple that are not empty (the header texts of the
\* model have no surrounding blanks, so strip() leaves them as they are)
NonEmptyParts(col_tuple) == FilterSeq(col_tuple, Range(col_tuple) \ {""})

\* df.columns = names, names[k] being the new name of the k-th column
SetColumns(df, names) ==
    [index   |-> df.index,
     columns |-> names,
     rows    |-> [i \in 1..NRows(df) |->
                    [c \in Range(names) |->
                        df.rows[i][df.columns[CHOOSE k \in 1..Len(names) : names[k] = c]]]]]

flatten_multiindex_columns(df) ==
    SetColumns(df, [k \in 1..Len(df.columns) |-> Join(NonEmptyParts(df.columns[k]), "::")])

\* [status, df]; KeyError when a required column is missing after the
\* renaming and the dropping
rename_and_select_columns(df, renames, drop_columns, required_columns) ==
    LET renamed == SetColumns(df, [k \in 1..Len(df.columns) |->
                                     IF df.columns[k] \in DOMAIN renames
                                     THEN renames[df.columns[k]] ELSE df.columns[k]])
        kept == DropColumns(renamed, Range(drop_columns))
    IN  IF \E col \in Range(required_columns) : ~HasColumn(kept, col)
        THEN Failed("KeyError")
        ELSE [status |-> "ok", df |-> kept]

\* the texts of the model that pd.to_datetime can parse, with their day
DateTexts == [t \in {"2023-01-10", "2023-02-15"} |-> IF t = "2023-01-10" THEN 0 ELSE 36]

\* pd.to_datetime(series, errors="coerce") on one cell
to_datetime(v) ==
    IF v[1] = "date" THEN v
    ELSE IF v[1] = "str" /\ v[2] \in DOMAIN DateTexts THEN Date(DateTexts[v[2]])
    ELSE NaT

RECURSIVE parse_dates(_, _)
parse_dates(df, date_columns) ==
    IF date_columns = <<>> THEN df
    ELSE parse_dates(
             IF HasColumn(df, Head(date_columns))
             THEN WithColumn(df, Head(date_columns),
                             [i \in 1..NRows(df) |-> to_datetime(df.rows[i][Head(date_columns)])])
             ELSE df,
             Tail(date_columns))

\* the texts of the model that pd.to_numeric can parse, with their value
NumberTexts == [t \in {"5.5"} |-> Num(11, 2)]

\* pd.to_numeric(df[column], errors="coerce") on one cell
to_numeric(v) ==
    IF IsNum(v) THEN v
    ELSE IF v[1] = "str" /\ v[2] \in DOMAIN NumberTexts THEN NumberTexts[v[2]]
    ELSE NaN

\* series.between(minimum, maximum): both ends included
between(v, minimum, maximum) == IsNum(v) /\ NumLeq(minimum, v) /\ NumLeq(v, maximum)

\* TRUE when _validate_numeric_ranges raises ValueError
_validate_numeric_ranges(df, rules) ==
    \E column \in DOMAIN rules :
        /\ HasColumn(df, column)
        /\ \E i \in 1..NRows(df) :
              /\ ~IsNaN(to_numeric(df.rows[i][column]))
              /\ ~between(to_numeric(df.rows[i][column]), rules[column][1], rules[column][2])

\* isna() of a cell
IsMissing(v) == v \in {NaN, NaT, None}

RECURSIVE CompletePositions(_, _, _)
CompletePositions(df, subset, i) ==
    IF i > NRows(df) THEN <<>>
    ELSE (IF \A c \in subset : ~IsMissing(df.rows[i][c]) THEN <<i>> ELSE <<>>)
         \o CompletePositions(df, subset, i + 1)

\* a dropna(subset=subset, how="all"): only rows missing every required value go
_drop_rows_with_missing_all(df, columns) ==
    LET subset == Range(columns) \cap Range(df.columns)
    IN  IF subset = {} THEN df
        ELSE ILoc(df, FilterSeq([i \in 1..NRows(df) |-> i],
                                {i \in 1..NRows(df) :
                                    \E c \in subset : ~IsMissing(df.rows[i][c])}))

_drop_rows_with_missing(df, columns) ==
    LET subset == Range(columns) \cap Range(df.columns)
    IN  IF subset = {} THEN df ELSE ILoc(df, CompletePositions(df, subset, 1))

\* the index label a cell becomes
AsLabel(v) == IF IsNum(v) /\ v[3] = 1 THEN IntId(v[2]) ELSE v

\* df.set_index(index_column, drop=True)
set_index(df, index_column) ==
    [index   |-> [i \in 1..NRows(df) |-> AsLabel(df.rows[i][index_column])],
     columns |-> FilterSeq(df.columns, Range(df.columns) \ {index_column}),
     rows    |-> [i \in 1..NRows(df) |->
                    [c \in Range(df.columns) \ {index_column} |-> df.rows[i][c]]]]

\* [status, df]; cfg.file is the sheet pd.read_excel returns for file_path
ingest_data_frame(cfg) ==
    Then(rename_and_select_columns(flatten_multiindex_columns(cfg.file), cfg.column_renames,
                                   cfg.drop_columns, cfg.required_columns),
         LAMBDA selected :
             Let(parse_dates(selected.df, cfg.date_columns),
                 LAMBDA parsed :
                     IF _validate_numeric_ranges(parsed, cfg.numeric_validation_rules)
                     THEN Failed("ValueError")
                     ELSE Let(IF cfg.drop_missing_outcomes
                              THEN _drop_rows_with_missing(parsed, cfg.required_columns)
                              ELSE parsed,
                              LAMBDA complete :
                                  [status |-> "ok",
                                   df |-> IF /\ cfg.index_column # ""
                                             /\ HasColumn(complete, cfg.index_column)
                                          THEN set_index(complete, cfg.index_column)
                                          ELSE complete])))

(* pipelines/training_pipeline.py: data_ingestion_step *)

\* a reading slip: the run goes on to the split after a failed ingestion
IngestionStepGoingOn ==
    /\ pc = "ingestion"
    /\ \E out \in {ingest_data_frame(config.data_ingestion)} :
          \/ /\ out.status = "error"
             /\ pc' = "split"
             /\ error' = out.error
             /\ UNCHANGED raw_data
          \/ /\ out.status = "ok"
             /\ raw_data' = out.df
             /\ pc' = "split"
             /\ UNCHANGED error
    /\ UNCHANGED <<warnings, config, heap, call, split_output, preprocessing_output, lasso,
                   feature_selection_output, training_input, training_results,
                   evaluation_summary, replay, twin>>

IngestionStep ==
    /\ pc = "ingestion"
    /\ \E out \in {ingest_data_frame(config.data_ingestion)} :
          \/ /\ out.status = "error"
             /\ pc' = "failed"
             /\ error' = out.error
             /\ UNCHANGED raw_data
          \/ /\ out.status = "ok"
             /\ raw_data' = out.df
             /\ pc' = "split"
             /\ UNCHANGED error
    /\ UNCHANGED <<warnings, config, heap, call, split_output, preprocessing_output, lasso,
                   feature_selection_output, training_input, training_results,
                   evaluation_summary, replay, twin>>

----------------------------------------------------------------------------
(* Specification Spec: training_pipeline from the ingestion to the          *)
(* evaluation,                                                              *)
(* beside a second run that has the same train split and another test split *)

PipelineRows == 7

PipelineFeatures == {"age", "egfr"}

PipelineKinds ==
    {"complete", "nan_feature", "nan_pair", "no_pet", "nan_pet", "nan_pet_last", "empty"}

\* a dataset of one feature column and the targets; its first row lacks the
\* feature ("nan_feature"), or the feature and ktv ("nan_pair"); pet is
\* missing in every row ("nan_pet") or in the last one ("nan_pet_last")
PipelineData(feature, kind) ==
    LET columns == IF kind = "no_pet" THEN <<feature, "ktv">> ELSE <<feature, "ktv", "pet">>
        n == IF kind = "empty" THEN 0 ELSE PipelineRows
    IN  Frame([i \in 1..n |-> IntId(i - 1)], columns,
              [i \in 1..n |-> [c \in Range(columns) |->
                  IF \/ /\ i = 1
                        /\ \/ c = feature /\ kind \in {"nan_feature", "nan_pair"}
                           \/ c = "ktv" /\ kind = "nan_pair"
                     \/ c = "pet" /\ kind = "nan_pet"
                     \/ c = "pet" /\ kind = "nan_pet_last" /\ i = n
                  THEN NaN
                  ELSE IF c = "pet" THEN Whole(1) ELSE Whole(i)]])

\* the test splits of the second run: one row that no dataset above holds
TwinTests(columns) ==
    {Frame(<<IntId(10)>>, columns,
           <<[c \in Range(columns) |-> IF c = columns[1] THEN v ELSE Whole(2)]>>) :
        v \in {Whole(4), NaN}}

ModelDefinition(model_type) == [model_type |-> model_type]

PipelineConfigs ==
    {[data_ingestion      |-> DefaultIngestionConfig,
      split               |-> [test_size |-> 5, shuffle |-> shuffle, random_seed |-> 0],
      preprocessing       |-> [DefaultPreprocessingConfig EXCEPT !.imputation_strategy = strategy],
      feature_engineering |-> [targets |-> fe],
      model_training      |-> [targets |-> mt],
      evaluation          |-> DefaultEvaluationConfig] :
        shuffle \in BOOLEAN,
        strategy \in {"none", "median"},
        fe \in {<<TargetConfig("ktv", "", 1)>>,
                <<TargetConfig("ktv", "", 2)>>,
                <<TargetConfig("ktv", "", 1), TargetConfig("pet", "", 1)>>,
                <<TargetConfig("ktv", "", 1), TargetConfig("hb", "", 1)>>},
        mt \in {<<[target |-> "ktv", models |-> <<ModelDefinition("linear_regression")>>]>>,
                <<[target |-> "hb",  models |-> <<ModelDefinition("linear_regression")>>],
                  [target |-> "pet", models |-> <<ModelDefinition("elastic_net")>>],
                  [target |-> "ktv", models |-> <<ModelDefinition("elastic_net"),
                                                  ModelDefinition("linear_regression")>>]>>}}

\* the sheet that pd.read_excel returns for a file holding the dataset under
\* one header row: every column name is a header tuple of one part
PipelineSheet(data) ==
    Frame(data.index, [k \in DOMAIN data.columns |-> <<data.columns[k]>>],
          [i \in 1..NRows(data) |-> [c \in {<<name>> : name \in Range(data.columns)} |->
              data.rows[i][c[1]]]])

\* the required columns of the ingestion: none, or "hb", which no dataset has
PipelineRequired == {<<>>, <<"hb">>}

Init ==
    /\ pc = "ingestion"
    /\ raw_data = EmptyFrame
    /\ \E f \in PipelineFeatures, k \in PipelineKinds, cfg \in PipelineConfigs,
          required \in PipelineRequired :
          /\ config = [cfg EXCEPT !.data_ingestion.file = PipelineSheet(PipelineData(f, k)),
                                  !.data_ingestion.required_columns = required]
          /\ twin \in {[TwinUnset EXCEPT !.test_data = t] :
                           t \in TwinTests(PipelineData(f, k).columns)}
    /\ NothingYet

Next ==
    \/ IngestionStep
    \/ SplitStep
    \/ PreprocessingStep
    \/ FeatureSelectionStep
    \/ TrainingInputStep
    \/ ModelTrainingStep
    \/ EvaluationStep

Spec == Init /\ [][Next]_vars

----------------------------------------------------------------------------
(* Claims about the whole run, checked under Spec *)

\* the selected features of each target
SelectedFeatures(fso) == [t \in DOMAIN fso.results |-> fso.results[t].selected_features]

\* the row identifiers every fitted estimator of a run was fitted on
FittedOn(tr) ==
    UNION {UNION {Range(tr.targets[t][k].estimator.X.index) : k \in DOMAIN tr.targets[t]} :
              t \in DOMAIN tr.targets}

C2_PredictColumnsAreFitColumns ==
    evaluation_summary.status \in {"ok", "error"} =>
        \A j \in DOMAIN evaluation_summary.predict_calls :
            evaluation_summary.predict_calls[j].columns
               = training_results.targets[evaluation_summary.predict_calls[j].target]
                                         [evaluation_summary.predict_calls[j].model]
                     .estimator.feature_names_in

----------------------------------------------------------------------------
(* Specification AliasSpec: build_training_input, then in-place changes of  *)
(* the objects behind the ModelTrainingInput and the PreprocessingOutput    *)

MaxMutations == 2

\* an in-place change of an object: every cell of a frame set to NaN
\* (df.iloc[:, :] = nan), the feature_columns of the artifacts emptied
Mutated(field, object) ==
    IF field = "artifacts"
    THEN [object EXCEPT !.feature_columns = <<>>]
    ELSE [object EXCEPT !.rows = [i \in 1..NRows(object) |->
                                     [c \in Range(object.columns) |-> NaN]]]

\* what the holder of the references sees: its fields read from the heap
Deref(objects, refs, record) ==
    [f \in DOMAIN record |-> IF f \in DOMAIN refs THEN objects[refs[f]] ELSE record[f]]

\* downstream code changes, in place, an object it reaches through the
\* ModelTrainingInput or through the PreprocessingOutput
MutateStep ==
    /\ pc = "model_training"
    /\ heap.status = "ok"
    /\ heap.mutations < MaxMutations
    /\ \E holder \in {"preprocessing_output", "training_input"},
          field \in {"features", "targets", "artifacts"} :
          \E objects \in {[heap.objects EXCEPT ![heap[holder][field]] = Mutated(field, @)]} :
             /\ heap' = [heap EXCEPT !.objects = objects,
                                     !.mutations = @ + 1,
                                     !.last = [holder |-> holder, field |-> field]]
             /\ preprocessing_output' =
                    Deref(objects, heap.preprocessing_output, preprocessing_output)
             /\ training_input' = Deref(objects, heap.training_input, training_input)
    /\ UNCHANGED <<pc, error, warnings, config, call, raw_data, split_output, lasso,
                   feature_selection_output, training_results, evaluation_summary,
                   replay, twin>>

NextAlias == TrainingInputStep \/ MutateStep

AliasSpec == InitAssemble /\ [][NextAlias]_vars

\* the step changed, in place, the object behind this field of this holder
MutatedThrough(holder, field) ==
    /\ heap.status = "ok"
    /\ heap'.status = "ok"
    /\ heap'.mutations = heap.mutations + 1
    /\ heap'.last = [holder |-> holder, field |-> field]

\* C11: no in-place change of ModelTrainingInput.targets or
\* ModelTrainingInput.artifacts is observable through the PreprocessingOutput
\* it was built from, and no in-place change of the PreprocessingOutput's
\* targets or artifacts is observable through the ModelTrainingInput
C11_NeverAliases ==
    [][\A field \in {"targets", "artifacts"} :
          /\ MutatedThrough("training_input", field)
                => preprocessing_output' = preprocessing_output
          /\ MutatedThrough("preprocessing_output", field)
                => training_input' = training_input]_vars

----------------------------------------------------------------------------
(* Specification TrainSpec: train_models on small training inputs *)

MaxTargetEntries == 2

TrainIndex == <<IntId(0), IntId(1), IntId(2)>>

\* the feature matrices: complete, or without a value of "a" in the first row
TrainFeatures ==
    {Frame(TrainIndex, <<"a", "b">>,
           [i \in 1..3 |-> [c \in {"a", "b"} |->
               IF i = 1 /\ c = "a" /\ gap THEN NaN ELSE Whole(i)]]) : gap \in BOOLEAN}

\* the targets: "ktv" observed in every row, in all but the first, or in
\* none; "pet" observed in every row, or not a column
TrainTargets ==
    {Frame(TrainIndex, columns,
           [i \in 1..3 |-> [c \in Range(columns) |->
               IF c = "ktv" /\ i <= missing THEN NaN ELSE Whole(i)]]) :
        missing \in {0, 1, 3}, columns \in {<<"ktv">>, <<"ktv", "pet">>}}

TargetModelCollections ==
    {[target |-> t, models |-> m] :
        t \in {"ktv", "pet", "hb"},
        m \in {<<ModelDefinition("linear_regression")>>,
               <<ModelDefinition("elastic_net"), ModelDefinition("linear_regression")>>}}

\* every list of one to MaxTargetEntries collections, repeated targets included
TrainConfigs ==
    {[DefaultConfig EXCEPT !.model_training = [targets |-> ts]] :
        ts \in UNION {{[i \in 1..n |-> f[i]] : f \in [1..n -> TargetModelCollections]} :
                         n \in 1..MaxTargetEntries}}

InitTrain ==
    /\ pc = "model_training"
    /\ config \in TrainConfigs
    /\ raw_data = EmptyFrame
    /\ twin = TwinUnset
    /\ error = "none"
    /\ warnings = {}
    /\ split_output = Unset
    /\ preprocessing_output = Unset
    /\ lasso = Unset
    /\ feature_selection_output = Unset
    /\ \E f \in TrainFeatures, t \in TrainTargets :
          training_input =
              [status |-> "ok", features |-> f, targets |-> t,
               selected_feature_map |-> <<>>, artifacts |-> PlainArtifacts(f.columns)]
    /\ training_results = Unset
    /\ evaluation_summary = Unset
    /\ replay = Unset
    /\ heap = Unset
    /\ call = Unset

NextTrain == ModelTrainingStep

TrainSpec == InitTrain /\ [][NextTrain]_vars

----------------------------------------------------------------------------
(* Claims about train_models, checked under TrainSpec *)

\* train_models has returned
Trained == pc = "evaluation" /\ training_results.status = "ok"

\* train_models has raised
TrainingRaised ==
    pc = "failed" /\ training_input.status = "ok" /\ training_results = Unset

ConfiguredTargets ==
    {config.model_training.targets[i].target : i \in DOMAIN config.model_training.targets}

\* the target has no column in the training targets, or no observed value
NoObservation(t) ==
    \/ ~HasColumn(training_input.targets, t)
    \/ \A i \in 1..NRows(training_input.targets) : IsNaN(training_input.targets.rows[i][t])

\* the model types configured for target t, over every collection of the
\* list that names t, in configuration order
RECURSIVE ConfiguredModels(_, _)
ConfiguredModels(entries, t) ==
    IF entries = <<>> THEN <<>>
    ELSE (IF Head(entries).target = t
          THEN [k \in 1..Len(Head(entries).models) |-> Head(entries).models[k].model_type]
          ELSE <<>>)
         \o ConfiguredModels(Tail(entries), t)

\* C12: when train_models returns, every configured target that has a
\* column and an observation has, in results.targets, exactly one ModelResult
\* per ModelDefinition configured for it, in configuration order, named by
\* the model_type and carrying r2, mae and mse
C12_OneResultPerModel ==
    Trained =>
        \A t \in ConfiguredTargets :
            ~NoObservation(t) =>
                /\ t \in DOMAIN training_results.targets
                /\ [k \in DOMAIN training_results.targets[t] |->
                       training_results.targets[t][k].name]
                      = ConfiguredModels(config.model_training.targets, t)
                /\ \A k \in DOMAIN training_results.targets[t] :
                      DOMAIN training_results.targets[t][k].metrics = {"r2", "mae", "mse"}

\* C13: a configured target without a column or without an observation is
\* skipped: it is not in results.targets, no estimator was fitted for it,
\* every other configured target is trained, and train_models raises only
\* for a target that is not skipped
C13_SkippedTargetsAreOmitted ==
    /\ Trained =>
          \A t \in ConfiguredTargets :
              IF NoObservation(t)
              THEN /\ t \notin DOMAIN training_results.targets
                   /\ \A j \in DOMAIN training_results.fit_calls :
                         training_results.fit_calls[j].target # t
              ELSE t \in DOMAIN training_results.targets
    /\ TrainingRaised =>
          \E t \in ConfiguredTargets :
              /\ ~NoObservation(t)
              /\ NotFiniteMatrix(Aligned(training_input.features,
                                         dropna(training_input.targets, t)))

\* a target whose column holds no observation was skipped while another
\* target was trained with two models
C13_Witness ==
    /\ Trained
    /\ \E t \in ConfiguredTargets : HasColumn(training_input.targets, t) /\ NoObservation(t)
    /\ DOMAIN training_results.targets # {}
    /\ Len(training_results.fit_calls) = 2

----------------------------------------------------------------------------
(* Claims about the skippable per-target conditions, checked under Spec *)

\* the skippable condition: the frame of targets has no column t, or no
\* observed value in it
Unusable(targets, t) ==
    \/ ~HasColumn(targets, t)
    \/ \A i \in 1..NRows(targets) : IsNaN(targets.rows[i][t])

\* the target columns configured for feature selection
SelectionTargets ==
    {TargetColumn(config.feature_engineering.targets[i]) :
        i \in DOMAIN config.feature_engineering.targets}

\* feature selection has run and raised
SelectionRaised ==
    /\ pc = "failed"
    /\ preprocessing_output.status = "ok"
    /\ feature_selection_output.status = "none"

\* the target whose turn it was when run_feature_selection raised was unusable
SelectionRaisedForUnusable ==
    /\ SelectionRaised
    /\ \E plan \in {FSPlan(preprocessing_output, config.feature_engineering)} :
          /\ ~plan.scaler_fails
          /\ \E i \in DOMAIN plan.targets :
                /\ plan.targets[i].outcome # "fit"
                /\ \A j \in 1..(i - 1) : plan.targets[j].outcome = "fit"
                /\ Unusable(preprocessing_output.targets,
                            TargetColumn(config.feature_engineering.targets[i]))

\* what evaluate_models replays of the test split
ProcessedTest ==
    apply_preprocessing_to_new_data(split_output.test, config.preprocessing,
                                    training_input.artifacts)

\* model training omits the unusable targets, trains the others, and raises
\* only for a target that is not unusable
TrainingSkips ==
    /\ training_results.status = "ok" =>
          \A t \in ConfiguredTargets :
              (t \in DOMAIN training_results.targets) <=> ~Unusable(training_input.targets, t)
    /\ TrainingRaised =>
          \E t \in ConfiguredTargets : ~Unusable(training_input.targets, t)

\* evaluation omits the trained targets that are unusable in the replayed
\* test split, evaluates the others, and raises only when the replay raises
\* or for a target that is not unusable
EvaluationSkips ==
    /\ evaluation_summary.status = "ok" =>
          \A t \in DOMAIN training_results.targets :
              (t \in DOMAIN evaluation_summary.targets) <=> ~Unusable(ProcessedTest.targets, t)
    /\ evaluation_summary.status = "error" =>
          \/ ProcessedTest.status # "ok"
          \/ \E t \in DOMAIN training_results.targets : ~Unusable(ProcessedTest.targets, t)

\* C14 as stated: in feature selection, model training and evaluation an
\* unusable target (no column, or no observed value) never aborts the run;
\* the stage omits it from its results and goes on with the other targets
C14_SkippableNeverAborts ==
    /\ ~SelectionRaisedForUnusable
    /\ feature_selection_output.status = "ok" =>
          \A t \in SelectionTargets :
              (t \in DOMAIN feature_selection_output.results)
                 <=> ~Unusable(preprocessing_output.targets, t)
    /\ TrainingSkips
    /\ EvaluationSkips

\* C14 amended: model training and evaluation omit an unusable target and
\* go on with the others; feature selection does not: once it has run on a
\* configuration with an unusable target the run has failed with a KeyError
\* or a ValueError and has no feature selection output
C14_SkipsInTrainingAndEvaluation ==
    /\ TrainingSkips
    /\ EvaluationSkips
    /\ (/\ preprocessing_output.status = "ok"
        /\ pc # "feature_selection"
        /\ \E t \in SelectionTargets : Unusable(preprocessing_output.targets, t))
          => /\ SelectionRaised
             /\ error \in {"KeyError", "ValueError"}

\* the run is done: model training skipped a configured target and
\* evaluation skipped a trained one that has no observation in the test split
C14_Witness ==
    /\ pc = "done"
    /\ \E t \in ConfiguredTargets : Unusable(training_input.targets, t)
    /\ \E t \in DOMAIN training_results.targets :
          /\ HasColumn(ProcessedTest.targets, t)
          /\ Unusable(ProcessedTest.targets, t)
    /\ evaluation_summary.targets # <<>>

----------------------------------------------------------------------------
(* Specification EvalSpec: train_models, then evaluate_models on small test *)
(* splits                                                                   *)

EvalTestRows == 2

\* the test splits: rows after the training rows, with the features and the
\* targets; "ktv" is observed in every row, in all but the first, or in
\* none; "pet" is observed in every row, in none, or is not a column
EvalTests ==
    {Frame([i \in 1..EvalTestRows |-> IntId(2 + i)], columns,
           [i \in 1..EvalTestRows |-> [c \in Range(columns) |->
               IF \/ c = "ktv" /\ i <= missing
                  \/ c = "pet" /\ no_pet
               THEN NaN ELSE Whole(i)]]) :
        missing \in {0, 1, EvalTestRows},
        no_pet \in BOOLEAN,
        columns \in {<<"a", "b", "ktv">>, <<"a", "b", "ktv", "pet">>}}

\* evaluation with and without plots, compared on r2 or on a name that is
\* not a field of EvaluationMetrics
EvaluationConfigs ==
    {[comparison_metric |-> m, generate_plots |-> g] : m \in {"r2", "rmse"}, g \in BOOLEAN}

EvalModelTraining ==
    {<<[target |-> "ktv", models |-> <<ModelDefinition("linear_regression")>>]>>,
     <<[target |-> "pet", models |-> <<ModelDefinition("elastic_net")>>],
       [target |-> "ktv", models |-> <<ModelDefinition("elastic_net"),
                                       ModelDefinition("linear_regression")>>]>>}

EvalConfigs ==
    {[DefaultConfig EXCEPT !.preprocessing.target_columns = target_columns,
                           !.model_training = [targets |-> mt],
                           !.evaluation = ev] :
        target_columns \in {<<"ktv">>, <<"ktv", "pet">>},
        mt \in EvalModelTraining,
        ev \in EvaluationConfigs}

InitEval ==
    /\ pc = "model_training"
    /\ config \in EvalConfigs
    /\ raw_data = EmptyFrame
    /\ twin = TwinUnset
    /\ error = "none"
    /\ warnings = {}
    /\ \E test \in EvalTests :
          split_output = [status |-> "ok", train |-> EmptyFrame, test |-> test,
                          test_indices |-> [i \in 1..NRows(test) |-> AsStr(test.index[i])]]
    /\ preprocessing_output = Unset
    /\ lasso = Unset
    /\ feature_selection_output = Unset
    /\ \E f \in TrainFeatures, t \in TrainTargets,
          selected \in {<<>>, [ktv |-> <<"a", "b">>]} :
          training_input =
              [status |-> "ok", features |-> f, targets |-> t,
               selected_feature_map |-> selected, artifacts |-> PlainArtifacts(f.columns)]
    /\ training_results = Unset
    /\ evaluation_summary = Unset
    /\ replay = Unset
    /\ heap = Unset
    /\ call = Unset

NextEval == ModelTrainingStep \/ EvaluationStep

EvalSpec == InitEval /\ [][NextEval]_vars

----------------------------------------------------------------------------
(* Claims about evaluate_models, checked under EvalSpec *)

\* the trained targets evaluate_models does not skip
Evaluated ==
    {t \in DOMAIN training_results.targets : ~Unusable(ProcessedTest.targets, t)}

----------------------------------------------------------------------------
(* Specification ClinicalSpec: direct calls of compute_charlson_index      *)

MaxComorbidities == 2

\* labels of the base table, and one that no table of the model holds
ComorbidityLabels ==
    {"diabetes", "myocardial_infarction", "moderate_or_severe_renal_disease",
     "metastatic_solid_tumor", "unlisted"}

ComorbidityLists ==
    UNION {{[i \in 1..n |-> f[i]] : f \in [1..n -> ComorbidityLabels]} :
              n \in 0..MaxComorbidities}

\* age: None, a missing cell, the ends of every bracket, and ages within
Ages ==
    {None, NaN, Whole(0), Whole(49), Whole(50), Whole(59), Num(119, 2), Whole(60),
     Whole(65), Whole(69), Whole(70), Whole(79), Whole(80), Whole(89), Whole(90), Whole(95)}

\* CharlsonConfig: weights None (<<>>) or a table of its own
CharlsonConfigs ==
    {[weights |-> w, include_renal_disease |-> r, include_age |-> a] :
        w \in {<<>>, [custom |-> 3],
               [diabetes |-> 4, moderate_or_severe_renal_disease |-> 5]},
        r \in BOOLEAN, a \in BOOLEAN}

InitClinical ==
    /\ pc = "call"
    /\ config = DefaultConfig
    /\ raw_data = EmptyFrame
    /\ twin = TwinUnset
    /\ error = "none"
    /\ warnings = {}
    /\ split_output = Unset
    /\ preprocessing_output = Unset
    /\ lasso = Unset
    /\ feature_selection_output = Unset
    /\ training_input = Unset
    /\ training_results = Unset
    /\ evaluation_summary = Unset
    /\ replay = Unset
    /\ heap = Unset
    /\ \E comorbidities \in ComorbidityLists, age \in Ages, cc \in CharlsonConfigs :
          call = [status |-> "pending", comorbidities |-> comorbidities, age |-> age,
                  config |-> cc]

\* score = compute_charlson_index(comorbidities, age, config)
CharlsonCall ==
    /\ pc = "call"
    /\ call.status = "pending"
    /\ call' = [status |-> "returned",
                result |-> compute_charlson_index(call.comorbidities, call.age, call.config)]
               @@ call
    /\ pc' = "returned"
    /\ UNCHANGED <<error, warnings, config, raw_data, split_output, preprocessing_output, lasso,
                   feature_selection_output, training_input, training_results,
                   evaluation_summary, replay, heap, twin>>

NextClinical == CharlsonCall

ClinicalSpec == InitClinical /\ [][NextClinical]_vars

----------------------------------------------------------------------------
(* Claims about compute_charlson_index, checked under ClinicalSpec *)

\* the weight table in force
WeightTable(cc) == IF DOMAIN cc.weights = {} THEN CCI_BASE_WEIGHTS ELSE cc.weights

\* the sum of the table's weights of the labels, 0 for a label not in it
RECURSIVE TableSum(_, _)
TableSum(table, labels) ==
    IF labels = <<>> THEN 0
    ELSE (IF Head(labels) \in DOMAIN table THEN table[Head(labels)] ELSE 0)
         + TableSum(table, Tail(labels))

\* the age lies in the bracket of the addend
InBracket(age, addend) ==
    /\ IsNum(age)
    /\ CASE addend = 0 -> NumLess(age, Whole(50))
         [] addend = 1 -> NumLeq(Whole(50), age) /\ NumLess(age, Whole(60))
         [] addend = 2 -> NumLeq(Whole(60), age) /\ NumLess(age, Whole(70))
         [] addend = 3 -> NumLeq(Whole(70), age) /\ NumLess(age, Whole(80))
         [] addend = 4 -> NumLeq(Whole(80), age) /\ NumLess(age, Whole(90))
         [] addend = 5 -> NumLeq(Whole(90), age)

\* the index without the age addend
WithoutAge(c) ==
    TableSum(WeightTable(c.config), c.comorbidities)
    + (IF c.config.include_renal_disease
       THEN TableSum(WeightTable(c.config), <<"moderate_or_severe_renal_disease">>)
       ELSE 0)

\* C16: compute_charlson_index returns the sum of the table weights of the
\* labels given, plus the weight of moderate_or_severe_renal_disease when
\* include_renal_disease is set, plus, when include_age is set and an age
\* is given, the addend of the bracket the age lies in: 0 below 50, 1 for
\* 50-59, 2 for 60-69, 3 for 70-79, 4 for 80-89, 5 from 90 on
C16_CharlsonIndex ==
    call.status = "returned" =>
        IF call.config.include_age /\ call.age # None
        THEN \E addend \in 0..5 :
                /\ InBracket(call.age, addend)
                /\ call.result = WithoutAge(call) + addend
        ELSE call.result = WithoutAge(call)

----------------------------------------------------------------------------
(* Claims about the derived body metrics, checked under PreprocSpec *)

\* preprocess_dataset has run on a train split that has the configured
\* weight and height columns
BodyMetricsDerived ==
    /\ pc # "preprocessing"
    /\ config.preprocessing.weight_column # ""
    /\ config.preprocessing.height_column # ""
    /\ HasColumn(split_output.train, config.preprocessing.weight_column)
    /\ HasColumn(split_output.train, config.preprocessing.height_column)

\* the row has a weight and a height that are numbers above 0
ValidBody(row) ==
    /\ IsNum(row[config.preprocessing.weight_column])
    /\ IsNum(row[config.preprocessing.height_column])
    /\ NumLess(Whole(0), row[config.preprocessing.weight_column])
    /\ NumLess(Whole(0), row[config.preprocessing.height_column])

\* C17: with the weight and height columns configured and present,
\* _derive_body_metrics raises nothing and returns one bmi and one bsa per
\* input row: NaN for both in a row whose weight or height is missing or not
\* above 0, the computed bmi and bsa in every other row
C17_BodyMetricsNeverFail ==
    BodyMetricsDerived =>
        \E out \in {_derive_body_metrics(split_output.train, config.preprocessing)} :
            /\ out.status = "ok"
            /\ NRows(out.df) = NRows(split_output.train)
            /\ \A i \in 1..NRows(split_output.train) :
                  IF ValidBody(split_output.train.rows[i])
                  THEN /\ out.df.rows[i]["bmi"] =
                             compute_bmi(split_output.train.rows[i][config.preprocessing.weight_column],
                                         split_output.train.rows[i][config.preprocessing.height_column])
                       /\ out.df.rows[i]["bsa"] =
                             compute_bsa_du_bois(
                                 split_output.train.rows[i][config.preprocessing.weight_column],
                                 split_output.train.rows[i][config.preprocessing.height_column])
                  ELSE /\ out.df.rows[i]["bmi"] = NaN
                       /\ out.df.rows[i]["bsa"] = NaN

----------------------------------------------------------------------------
(* Claims about the PreprocessingOutput, checked under PreprocSpec *)

\* C18: the features and the targets preprocess_dataset returns have the row
\* identifiers of its input, in input order; the columns of the targets are
\* the configured target columns, none of which is a column of the features
C18_FeaturesAndTargetsAligned ==
    preprocessing_output.status = "ok" =>
        /\ preprocessing_output.features.index = split_output.train.index
        /\ preprocessing_output.targets.index = split_output.train.index
        /\ preprocessing_output.targets.columns = config.preprocessing.target_columns
        /\ Range(preprocessing_output.features.columns)
              \cap Range(config.preprocessing.target_columns) = {}
        /\ Range(preprocessing_output.artifacts.feature_columns)
              \cap Range(config.preprocessing.target_columns) = {}

\* preprocess_dataset returned for two rows with derived, scaled and encoded
\* features and both targets
C18_Witness ==
    /\ preprocessing_output.status = "ok"
    /\ NRows(preprocessing_output.features) = 2
    /\ preprocessing_output.targets.columns = <<"ktv", "pet">>
    /\ HasColumn(split_output.train, "ktv")
    /\ HasColumn(preprocessing_output.features, "bmi")
    /\ preprocessing_output.artifacts.encoder # NoTransformer

\* C19: every column of the features preprocess_dataset returns, and every
\* name in artifacts.feature_columns, is a numeric column or a column the
\* categorical encoder produced; no date column and no unencoded column of
\* strings is left
C19_FeaturesNumericOrEncoded ==
    preprocessing_output.status = "ok" =>
        /\ preprocessing_output.artifacts.feature_columns
              = preprocessing_output.features.columns
        /\ \A c \in Range(preprocessing_output.features.columns) :
              \/ c \in Range(preprocessing_output.artifacts.encoded_categorical_columns)
              \/ IsNumberColumn(preprocessing_output.features, c)

----------------------------------------------------------------------------
(* Claims about the targets of run_feature_selection, checked under Spec *)

\* the row identifiers of the frame's rows that have a value of t, in order
ObservedRows(targets, t) ==
    Let(FilterSeq([i \in 1..NRows(targets) |-> i],
                  {i \in 1..NRows(targets) : ~IsNaN(targets.rows[i][t])}),
        LAMBDA pos : [k \in 1..Len(pos) |-> targets.index[pos[k]]])

\* C20: run_feature_selection on a configuration with a target that has no
\* column or no value raises and returns no FeatureSelectionOutput, whatever
\* targets it has processed before: a KeyError only for a missing column, a
\* ValueError when every column is there; when it returns, each target's
\* model was fitted on the rows that have a value of that target, and on the
\* features of those rows
C20_SelectionTargets ==
    /\ (/\ preprocessing_output.status = "ok"
        /\ pc # "feature_selection"
        /\ \E t \in SelectionTargets : Unusable(preprocessing_output.targets, t))
          => /\ SelectionRaised
             /\ lasso = Unset
             /\ error \in {"KeyError", "ValueError"}
             /\ error = "KeyError" =>
                   \E t \in SelectionTargets : ~HasColumn(preprocessing_output.targets, t)
             /\ (\A t \in SelectionTargets : HasColumn(preprocessing_output.targets, t))
                   => error = "ValueError"
    /\ feature_selection_output.status = "ok" =>
          /\ DOMAIN feature_selection_output.results = SelectionTargets
          /\ \A t \in SelectionTargets :
                /\ lasso[t].y.index = ObservedRows(preprocessing_output.targets, t)
                /\ lasso[t].X_index = ObservedRows(preprocessing_output.targets, t)

\* run_feature_selection returned for two targets, one fitted on fewer rows
\* than the other
C20_Witness ==
    /\ feature_selection_output.status = "ok"
    /\ SelectionTargets = {"ktv", "pet"}
    /\ Len(lasso["ktv"].X_index) < Len(lasso["pet"].X_index)
    /\ Len(lasso["pet"].X_index) = NRows(preprocessing_output.features)

----------------------------------------------------------------------------
(* Claims about repeated calls of perform_split, checked under SplitSpec *)

----------------------------------------------------------------------------
(* Specification IngestSpec: ingest_data_frame on every small sheet *)

MaxSheetRows == 2

\* the header of the sheet of tests/steps/test_data_ingestion.py
SheetColumns ==
    <<<<"Unnamed: 0_level_0", "UUID">>, <<"Demographics", "Age">>, <<"Demographics", "Gender">>,
      <<"PD related", "Date of PD start">>, <<"Ground Truth", "Kt/V">>>>

\* the start date of a row: a date text, an empty cell, a text that is no date
SheetDates == {Str("2023-01-10"), None, Str("unknown")}

\* the Kt/V of a row: within the range, empty, above the range, on its upper end
SheetKtv == {Num(9, 5), NaN, Num(11, 2), Whole(4)}

Sheets ==
    UNION {{Frame([i \in 1..n |-> IntId(i - 1)], SheetColumns,
                  [i \in 1..n |->
                      [c \in Range(SheetColumns) |->
                          CASE c[2] = "UUID" -> Str("patient-" \o IntToStr(i))
                            [] c[2] = "Age" -> Whole(54 + i)
                            [] c[2] = "Gender" -> Str("F")
                            [] c[2] = "Date of PD start" -> d[i]
                            [] c[2] = "Kt/V" -> k[i]]]) :
              d \in [1..n -> SheetDates], k \in [1..n -> SheetKtv]} : n \in 0..MaxSheetRows}

\* the configuration of the tests, with other required columns ("hb" is no
\* column of the sheet), without the date parsing, the range rule, the
\* dropping or the index column
IngestionConfigs ==
    {[file                     |-> file,
      required_columns         |-> required_columns,
      date_columns             |-> date_columns,
      numeric_validation_rules |-> rules,
      column_renames           |-> [c \in {"Unnamed: 0_level_0::UUID", "Demographics::Age",
                                           "PD related::Date of PD start", "Ground Truth::Kt/V"} |->
                                       CASE c = "Unnamed: 0_level_0::UUID" -> "patient_id"
                                         [] c = "Demographics::Age" -> "age"
                                         [] c = "PD related::Date of PD start" -> "pd_start_date"
                                         [] c = "Ground Truth::Kt/V" -> "ktv"],
      drop_columns             |-> <<"Demographics::Gender">>,
      index_column             |-> index_column,
      drop_missing_outcomes    |-> drop_missing_outcomes] :
        file \in Sheets,
        required_columns \in {<<"patient_id", "age", "ktv", "pd_start_date">>,
                              <<"patient_id", "ktv">>, <<"ktv", "hb">>},
        date_columns \in {<<>>, <<"pd_start_date">>},
        rules \in {<<>>, [ktv |-> <<Num(1, 2), Whole(4)>>]},
        index_column \in {"", "patient_id"},
        drop_missing_outcomes \in BOOLEAN}

InitIngest ==
    /\ pc = "ingestion"
    /\ config \in {[DefaultConfig EXCEPT !.data_ingestion = ic] : ic \in IngestionConfigs}
    /\ raw_data = EmptyFrame
    /\ twin = TwinUnset
    /\ NothingYet

NextIngest == IngestionStep

IngestSpec == InitIngest /\ [][NextIngest]_vars

----------------------------------------------------------------------------
(* Claims about ingest_data_frame, checked under IngestSpec *)

\* the column of the sheet that the configuration names c
SheetColumn(c) ==
    CHOOSE col \in Range(SheetColumns) :
        LET flat == Join(NonEmptyParts(col), "::")
        IN  c = IF flat \in DOMAIN config.data_ingestion.column_renames
                THEN config.data_ingestion.column_renames[flat] ELSE flat

\* the rows of the sheet, by position, that hold a value in every required column
RECURSIVE RowsWithValues(_)
RowsWithValues(i) ==
    IF i > NRows(config.data_ingestion.file) THEN <<>>
    ELSE (IF \A c \in Range(config.data_ingestion.required_columns) :
                ~IsMissing(config.data_ingestion.file.rows[i][SheetColumn(c)])
          THEN <<i>> ELSE <<>>) \o RowsWithValues(i + 1)

\* the rows of the sheet, by position, that hold a value in every required
\* column once the date columns are parsed
RECURSIVE RowsWithParsedValues(_)
RowsWithParsedValues(i) ==
    IF i > NRows(config.data_ingestion.file) THEN <<>>
    ELSE (IF \A c \in Range(config.data_ingestion.required_columns) :
                /\ ~IsMissing(config.data_ingestion.file.rows[i][SheetColumn(c)])
                /\ c \in Range(config.data_ingestion.date_columns) =>
                      ~IsMissing(to_datetime(config.data_ingestion.file.rows[i][SheetColumn(c)]))
          THEN <<i>> ELSE <<>>) \o RowsWithParsedValues(i + 1)

\* a row of the sheet has a number outside the range of a rule
OutOfRange ==
    \E c \in DOMAIN config.data_ingestion.numeric_validation_rules :
        \E i \in 1..NRows(config.data_ingestion.file) :
            LET v == config.data_ingestion.file.rows[i][SheetColumn(c)]
                rule == config.data_ingestion.numeric_validation_rules[c]
            IN  IsNum(v) /\ (NumLess(v, rule[1]) \/ NumLess(rule[2], v))

\* ingest_data_frame has returned the rows at these positions of the sheet,
\* in this order
Returned(positions) ==
    /\ NRows(raw_data) = Len(positions)
    /\ \A j \in 1..Len(positions) :
          /\ raw_data.index[j] =
                IF config.data_ingestion.index_column = "" THEN IntId(positions[j] - 1)
                ELSE config.data_ingestion.file.rows[positions[j]][SheetColumn("patient_id")]
          /\ raw_data.rows[j]["ktv"] = config.data_ingestion.file.rows[positions[j]][SheetColumn("ktv")]

Ingested == pc = "split" /\ config.data_ingestion.drop_missing_outcomes

\* C22: with drop_missing_outcomes, ingest_data_frame returns exactly the
\* rows of its input that have no missing value in any required column, in
\* the order of the input, and it fails when any row of the input has a
\* value outside the range of a validation rule
C22_DropsRowsWithMissingValues ==
    /\ Ingested => Returned(RowsWithValues(1))
    /\ OutOfRange => pc # "split"

\* C22 as the code has it: with drop_missing_outcomes, ingest_data_frame
\* returns exactly the rows that have no missing value in any required
\* column after the date columns were parsed, a text that is no date
\* counting as missing, in the order of the input; it fails when any row of
\* the input has a value outside the range of a validation rule
C22_DropsRowsMissingAfterParsing ==
    /\ Ingested => Returned(RowsWithParsedValues(1))
    /\ OutOfRange => pc # "split"

\* of two rows the first lacked its outcome and was dropped, the second was
\* returned
C22_Witness ==
    /\ Ingested
    /\ NRows(config.data_ingestion.file) = 2
    /\ config.data_ingestion.file.rows[1][SheetColumn("ktv")] = NaN
    /\ NRows(raw_data) = 1
    /\ raw_data.index = <<Str("patient-2")>>

----------------------------------------------------------------------------
(* utils/clinical.py: validate_prediction_ranges *)

\* the element of (predictions >= bound): False for NaN
GreaterEqual(v, bound) == IsNum(v) /\ NumLeq(bound, v)

\* the element of (predictions <= bound): False for NaN
LessEqual(v, bound) == IsNum(v) /\ NumLeq(v, bound)

\* a range whose ends are not accepted
validate_prediction_ranges_open(predictions, target) ==
    IF target = "ktv"
    THEN [status |-> "ok",
          value |-> \A i \in DOMAIN predictions :
                       /\ GreaterEqual(predictions[i], Num(1, 2)) /\ predictions[i] # Num(1, 2)
                       /\ LessEqual(predictions[i], Whole(4)) /\ predictions[i] # Whole(4)]
    ELSE IF target = "pet"
    THEN [status |-> "ok",
          value |-> \A i \in DOMAIN predictions :
                       /\ GreaterEqual(predictions[i], Num(1, 10)) /\ predictions[i] # Num(1, 10)
                       /\ LessEqual(predictions[i], Whole(1)) /\ predictions[i] # Whole(1)]
    ELSE Failed("ValueError")

\* [status, value]
validate_prediction_ranges(predictions, target) ==
    IF target = "ktv"
    THEN [status |-> "ok",
          value |-> \A i \in DOMAIN predictions :
                       GreaterEqual(predictions[i], Num(1, 2)) /\ LessEqual(predictions[i], Whole(4))]
    ELSE IF target = "pet"
    THEN [status |-> "ok",
          value |-> \A i \in DOMAIN predictions :
                       GreaterEqual(predictions[i], Num(1, 10)) /\ LessEqual(predictions[i], Whole(1))]
    ELSE Failed("ValueError")

----------------------------------------------------------------------------
(* Specification RangeSpec: direct calls of validate_prediction_ranges *)

MaxPredictions == 2

\* predictions below, on, within and above the ends of both ranges, and NaN
PredictionValues ==
    {Num(1, 20), Num(1, 10), Num(2, 5), Num(1, 2), Num(9, 10), Whole(1), Num(21, 20),
     Num(5, 2), Whole(4), Num(9, 2), Whole(0 - 1), NaN}

PredictionArrays ==
    UNION {[1..n -> PredictionValues] : n \in 0..MaxPredictions}

PredictionTargets == {"ktv", "pet", "hb", "KTV"}

InitRange ==
    /\ pc = "call"
    /\ config = DefaultConfig
    /\ raw_data = EmptyFrame
    /\ twin = TwinUnset
    /\ error = "none"
    /\ warnings = {}
    /\ split_output = Unset
    /\ preprocessing_output = Unset
    /\ lasso = Unset
    /\ feature_selection_output = Unset
    /\ training_input = Unset
    /\ training_results = Unset
    /\ evaluation_summary = Unset
    /\ replay = Unset
    /\ heap = Unset
    /\ \E predictions \in PredictionArrays, target \in PredictionTargets :
          call = [status |-> "pending", predictions |-> predictions, target |-> target]

\* validate_prediction_ranges(predictions, target), called directly
RangeCall ==
    /\ pc = "call"
    /\ call.status = "pending"
    /\ \E out \in {validate_prediction_ranges(call.predictions, call.target)} :
          \/ /\ out.status = "error"
             /\ call' = [status |-> "raised"] @@ call
             /\ error' = out.error
             /\ pc' = "failed"
          \/ /\ out.status = "ok"
             /\ call' = [status |-> "returned", result |-> out.value] @@ call
             /\ pc' = "returned"
             /\ UNCHANGED error
    /\ UNCHANGED <<warnings, config, raw_data, split_output, preprocessing_output, lasso,
                   feature_selection_output, training_input, training_results,
                   evaluation_summary, replay, heap, twin>>

NextRange == RangeCall

RangeSpec == InitRange /\ [][NextRange]_vars

----------------------------------------------------------------------------
(* Claims about validate_prediction_ranges, checked under RangeSpec *)

\* the closed range of a target
PlausibleRange(target) ==
    IF target = "ktv" THEN <<Num(1, 2), Whole(4)>> ELSE <<Num(1, 10), Whole(1)>>

\* the array holds a number below or above the range of the target
HoldsValueOutside(predictions, target) ==
    \E i \in DOMAIN predictions :
        /\ IsNum(predictions[i])
        /\ \/ NumLess(predictions[i], PlausibleRange(target)[1])
           \/ NumLess(PlausibleRange(target)[2], predictions[i])

\* C23: for "pet" and "ktv" validate_prediction_ranges returns False for an
\* array that holds a value below or above the range of the target, the ends
\* being accepted, and True for every other array; it raises for every other
\* target name
C23_FalseOnlyForValuesOutside ==
    /\ call.status # "pending" /\ call.target \in {"ktv", "pet"} =>
          /\ call.status = "returned"
          /\ call.result = ~HoldsValueOutside(call.predictions, call.target)
    /\ call.status # "pending" /\ call.target \notin {"ktv", "pet"} =>
          call.status = "raised" /\ error = "ValueError"

\* C23 as the code has it: for "pet" and "ktv" validate_prediction_ranges
\* returns True when every prediction is a number within the closed range
\* of the target (also for an empty array) and False when the array holds a
\* value below or above the range or a NaN; it raises for every other
\* target name
C23_TrueIffAllWithinRange ==
    /\ call.status # "pending" /\ call.target \in {"ktv", "pet"} =>
          /\ call.status = "returned"
          /\ call.result = /\ ~HoldsValueOutside(call.predictions, call.target)
                           /\ \A i \in DOMAIN call.predictions : ~IsNaN(call.predictions[i])
    /\ call.status # "pending" /\ call.target \notin {"ktv", "pet"} =>
          call.status = "raised" /\ error = "ValueError"

\* a pet array on both ends of the range was accepted
C23_Witness ==
    /\ call.status = "returned"
    /\ call.target = "pet"
    /\ call.predictions = <<Num(1, 10), Whole(1)>>
    /\ call.result

----------------------------------------------------------------------------
(* Claims about the charlson_index column, checked under PreprocSpec *)

\* the labels of the mapped columns (pairs <<column, label>>) that row i has
\* and holds a value for that is not missing and not zero
RECURSIVE LabelsSet(_, _, _)
LabelsSet(df, i, pairs) ==
    IF pairs = <<>> THEN <<>>
    ELSE (IF /\ HasColumn(df, Head(pairs)[1])
             /\ ~IsMissing(df.rows[i][Head(pairs)[1]])
             /\ Truthy(df.rows[i][Head(pairs)[1]])
          THEN <<Head(pairs)[2]>> ELSE <<>>)
         \o LabelsSet(df, i, Tail(pairs))

\* the age of row i, None when the row has no age
AgeGiven(df, i, cfg) ==
    IF HasColumn(df, cfg.age_column) /\ ~IsMissing(df.rows[i][cfg.age_column])
    THEN df.rows[i][cfg.age_column] ELSE None

\* compute_charlson_index for row i with the merged weight table
LibraryIndex(df, i, cfg) ==
    compute_charlson_index(LabelsSet(df, i, cfg.comorbidity_columns), AgeGiven(df, i, cfg),
                           [weights |-> cfg.cci_weights @@ CCI_BASE_WEIGHTS,
                            include_renal_disease |-> TRUE,
                            include_age |-> cfg.include_age_in_cci])

\* C24: in every row the charlson_index column that preprocess_dataset
\* computes is compute_charlson_index of the labels whose mapped column is
\* set and not missing in the row, with the merged weight table, the
\* configured include_age and the row's age, a missing age being no age;
\* also with an empty comorbidity mapping and for missing flags and ages
C24_IndexAgreesWithLibrary ==
    pc # "preprocessing" =>
        \A i \in 1..NRows(split_output.train) :
            _compute_cci(split_output.train, config.preprocessing)[i]
               = Whole(LibraryIndex(split_output.train, i, config.preprocessing))

----------------------------------------------------------------------------
(* Claims about the PreprocessingArtifacts, checked under PreprocSpec *)

\* C25: in the artifacts of preprocess_dataset the imputer is present if and
\* only if the strategy is not "none" and there are numeric columns, the
\* scaler if and only if there are numeric columns, the encoder if and only
\* if categorical columns are configured, and feature_columns is the column
\* sequence of the returned features
C25_ArtifactsPresence ==
    preprocessing_output.status = "ok" =>
        \E artifacts \in {preprocessing_output.artifacts} :
            /\ artifacts.imputer # NoTransformer
                  <=> /\ config.preprocessing.imputation_strategy # "none"
                      /\ artifacts.numeric_columns # <<>>
            /\ artifacts.scaler # NoTransformer <=> artifacts.numeric_columns # <<>>
            /\ artifacts.encoder # NoTransformer
                  <=> config.preprocessing.categorical_features # <<>>
            /\ artifacts.feature_columns = preprocessing_output.features.columns
            /\ config.preprocessing.numeric_features # <<>> =>
                  artifacts.numeric_columns = config.preprocessing.numeric_features

\* preprocess_dataset found no numeric column under a "mean" strategy and
\* returned an encoder alone
C25_Witness ==
    /\ preprocessing_output.status = "ok"
    /\ config.preprocessing.imputation_strategy = "mean"
    /\ preprocessing_output.artifacts.numeric_columns = <<>>
    /\ preprocessing_output.artifacts.imputer = NoTransformer
    /\ preprocessing_output.artifacts.scaler = NoTransformer
    /\ preprocessing_output.artifacts.encoder # NoTransformer

----------------------------------------------------------------------------
(* Claims about the log transform, checked under PreprocSpec *)

\* a configured log-transform column of the dataset holds a value below -1
BelowMinusOne(data, cfg) ==
    \E c \in Range(cfg.log_transform_features) :
        /\ HasColumn(data, c)
        /\ \E i \in 1..NRows(data) :
              IsNum(data.rows[i][c]) /\ NumLess(data.rows[i][c], Whole(0 - 1))

\* the configuration without its log transform
WithoutLogTransform(cfg) == [cfg EXCEPT !.log_transform_features = <<>>]

\* preprocess_dataset failed on a train set with a value below -1, returned
\* nothing and left the train set of its caller as it was
LogFailureInPreprocess ==
    pc # "preprocessing" /\ BelowMinusOne(split_output.train, config.preprocessing) =>
        /\ pc = "failed"
        /\ error = "ValueError"
        /\ preprocessing_output = Unset
        /\ split_output.train \in TrainDatasets

\* apply_preprocessing_to_new_data failed on a dataset with a value below -1
\* (or earlier, on a date column the dataset lacks)
LogFailureInReplay ==
    replay.status # "none" /\ BelowMinusOne(replay.data, config.preprocessing) =>
        /\ replay.status = "error"
        /\ \/ replay.error = "ValueError"
           \/ _derive_time_metrics(replay.data, config.preprocessing).status = "error"

\* a failure on a dataset without a value below -1 is not due to the log
\* transform: the call fails without the log transform as well
NoOtherLogFailure ==
    /\ pc = "failed" /\ ~BelowMinusOne(split_output.train, config.preprocessing) =>
          preprocess_dataset(split_output.train,
                             WithoutLogTransform(config.preprocessing)).status = "error"
    /\ replay.status = "error" /\ ~BelowMinusOne(replay.data, config.preprocessing) =>
          apply_preprocessing_to_new_data(replay.data, WithoutLogTransform(config.preprocessing),
                                          preprocessing_output.artifacts).status = "error"

\* C26: a value below -1 in a configured log-transform column makes
\* preprocess_dataset and apply_preprocessing_to_new_data fail with an
\* invalid-input error and return nothing, the dataset of the caller staying
\* as it was; a value of exactly -1 or a missing value causes no failure
C26_LogTransformDomain ==
    LogFailureInPreprocess /\ LogFailureInReplay /\ NoOtherLogFailure

----------------------------------------------------------------------------
(* Specification EnsembleSpec: train_models, then evaluate_models, with    *)
(* quantile ensembles and stacked models configured for one target         *)

EnsembleRows == 5

\* the feature matrices: EnsembleRows rows or 3, complete or without a value
\* of "a" in the first row
EnsembleFeatures ==
    {Frame([i \in 1..n |-> IntId(i - 1)], <<"a", "b">>,
           [i \in 1..n |-> [c \in {"a", "b"} |->
               IF i = 1 /\ c = "a" /\ gap THEN NaN ELSE Whole(i)]]) :
        n \in {3, EnsembleRows}, gap \in BOOLEAN}

\* "ktv" observed in every row
EnsembleTargets(features) ==
    Frame(features.index, <<"ktv">>, [i \in 1..NRows(features) |-> [ktv |-> Whole(i)]])

\* quantile ensembles: no quantiles, two at the same distance from 0.5 in
\* either order, a repeated quantile, and 0.5 between two others; with and
\* without a search space
QuantileDefinitions ==
    {[model_type |-> "quantile_lightgbm", quantiles |-> quantiles, search_space |-> space] :
        quantiles \in {<<>>, <<Num(1, 4), Num(3, 4)>>, <<Num(3, 4), Num(1, 4)>>,
                       <<Num(7, 8), Num(1, 4), Num(7, 8), Num(3, 4)>>,
                       <<Num(1, 8), Num(1, 2), Num(7, 8)>>},
        space \in {<<>>, [num_leaves |-> <<15, 31>>]}}

\* stacked models: without a base model, with one, with two of which the
\* first is tuned by a search, and with a quantile ensemble as the second
StackedDefinitions ==
    {[model_type |-> "stacked", base_models |-> base_models] :
        base_models \in
            {<<>>,
             <<ModelDefinition("linear_regression")>>,
             <<[model_type |-> "elastic_net", search_space |-> [alpha |-> <<1, 10>>]],
               ModelDefinition("linear_regression")>>,
             <<ModelDefinition("elastic_net"), ModelDefinition("elastic_net"),
               ModelDefinition("linear_regression")>>,
             <<ModelDefinition("linear_regression"),
               [model_type |-> "quantile_lightgbm", quantiles |-> <<Num(1, 2)>>]>>}}

\* the ensemble alone, or after a linear model; the evaluation of the
\* default configuration, or one whose plots fail on the name of the metric
EnsembleConfigs ==
    {[DefaultConfig EXCEPT
         !.preprocessing.target_columns = <<"ktv">>,
         !.model_training = [targets |-> <<[target |-> "ktv", models |-> models]>>],
         !.evaluation = evaluation] :
        evaluation \in {DefaultEvaluationConfig,
                        [comparison_metric |-> "rmse", generate_plots |-> TRUE]},
        models \in {<<model_def>> : model_def \in QuantileDefinitions \cup StackedDefinitions}
                   \cup {<<ModelDefinition("linear_regression"), model_def>> :
                            model_def \in QuantileDefinitions \cup StackedDefinitions}}

\* the test splits that have the features and "ktv"
EnsembleTests == {test \in EvalTests : test.columns = <<"a", "b", "ktv">>}

InitEnsemble ==
    /\ pc = "model_training"
    /\ config \in EnsembleConfigs
    /\ raw_data = EmptyFrame
    /\ twin = TwinUnset
    /\ error = "none"
    /\ warnings = {}
    /\ \E test \in EnsembleTests :
          split_output = [status |-> "ok", train |-> EmptyFrame, test |-> test,
                          test_indices |-> [i \in 1..NRows(test) |-> AsStr(test.index[i])]]
    /\ preprocessing_output = Unset
    /\ lasso = Unset
    /\ feature_selection_output = Unset
    /\ \E f \in EnsembleFeatures :
          training_input =
              [status |-> "ok", features |-> f, targets |-> EnsembleTargets(f),
               selected_feature_map |-> <<>>, artifacts |-> PlainArtifacts(f.columns)]
    /\ training_results = Unset
    /\ evaluation_summary = Unset
    /\ replay = Unset
    /\ heap = Unset
    /\ call = Unset

NextEnsemble == ModelTrainingStep \/ EvaluationStep

EnsembleSpec == InitEnsemble /\ [][NextEnsemble]_vars

----------------------------------------------------------------------------
(* Claims about the ensembles, checked under EnsembleSpec *)

\* the model definitions configured for the target
EnsembleModels == config.model_training.targets[1].models

\* the quantiles configured by the definition, 0.5 when it configures none
ConfiguredQuantiles(model_def) ==
    IF model_def.quantiles = <<>> THEN {Num(1, 2)} ELSE Range(model_def.quantiles)

\* the fit calls of train_models made for quantile q
QuantileFitCalls(q) ==
    {j \in DOMAIN training_results.fit_calls :
        /\ training_results.fit_calls[j].model_type = "quantile_lightgbm"
        /\ training_results.fit_calls[j].quantile = q}

\* C27: for a quantile ensemble train_models fits one estimator per distinct
\* configured quantile, only the one of 0.5 when none is configured; the
\* quantile whose predictions enter the metrics is one that no configured
\* quantile is nearer to 0.5 than; and evaluate_models takes the predictions
\* of the estimator of that same quantile, also when two quantiles are
\* equally near to 0.5
C27_PrimaryQuantile ==
    training_results.status = "ok" =>
        \A k \in DOMAIN EnsembleModels :
            EnsembleModels[k].model_type = "quantile_lightgbm" =>
                /\ Range(training_results.targets["ktv"][k].estimator.quantiles)
                      = ConfiguredQuantiles(EnsembleModels[k])
                /\ \A q \in ConfiguredQuantiles(EnsembleModels[k]) :
                      /\ Cardinality(QuantileFitCalls(q)) = 1
                      /\ NumLeq(DistanceToMedian(training_results.targets["ktv"][k].primary),
                                DistanceToMedian(q))
                /\ training_results.targets["ktv"][k].primary
                      \in ConfiguredQuantiles(EnsembleModels[k])
                /\ (evaluation_summary.status = "ok" /\ "ktv" \in DOMAIN evaluation_summary.targets) =>
                      {q \in ConfiguredQuantiles(EnsembleModels[k]) :
                          StrOfFloat(q) = evaluation_summary.targets["ktv"][k].primary}
                         = {training_results.targets["ktv"][k].primary}

\* an ensemble configured with 0.875 twice and with 0.25 before 0.75, which
\* are equally near to 0.5, was trained and evaluated
C27_Witness ==
    /\ pc = "done"
    /\ evaluation_summary.status = "ok"
    /\ "ktv" \in DOMAIN evaluation_summary.targets
    /\ \E k \in DOMAIN EnsembleModels :
          /\ EnsembleModels[k].model_type = "quantile_lightgbm"
          /\ EnsembleModels[k].quantiles = <<Num(7, 8), Num(1, 4), Num(7, 8), Num(3, 4)>>
          /\ training_results.targets["ktv"][k].primary = Num(1, 4)
          /\ evaluation_summary.targets["ktv"][k].primary = "0.25"

\* the training data is nothing an estimator of the model can be fitted to:
\* a cell of the features is missing, or there are fewer rows than the five
\* folds of the stack
UnfitData ==
    \/ NotFiniteMatrix(training_input.features)
    \/ TooFewRows(training_input.features, 5)

\* the fit calls that train_models made on base learners
BaseFitCalls ==
    {j \in DOMAIN training_results.fit_calls : "part" \in DOMAIN training_results.fit_calls[j]}

\* the fit calls of the base learners of model_def are the n calls before
\* call s, in base_models order, each with a search exactly if the base
\* has a search space
BasesFittedBefore(model_def, s) ==
    /\ s > Len(model_def.base_models)
    /\ \A i \in DOMAIN model_def.base_models :
          LET fit_call ==
                  training_results.fit_calls[s - Len(model_def.base_models) + i - 1]
          IN  /\ "part" \in DOMAIN fit_call
              /\ fit_call.idx = i - 1
              /\ fit_call.model_type = model_def.base_models[i].model_type
              /\ fit_call.search = (SearchSpaceOf(model_def.base_models[i]) # <<>>)

\* C28: for a stacked definition with a base model train_models fits every
\* base learner, by a search exactly if the base has a search space, in
\* base_models order and before the fit of the stack, and records one
\* base_models entry of name, best_params and best_score per base in that
\* order, raising only for data that no estimator can be fitted to; for a
\* stacked definition without a base model it raises and returns no results
C28_StackedBasesFirst ==
    pc # "model_training" =>
        \A k \in DOMAIN EnsembleModels :
            EnsembleModels[k].model_type = "stacked" =>
                IF EnsembleModels[k].base_models = <<>>
                THEN pc = "failed" /\ error = "ValueError" /\ training_results = Unset
                ELSE /\ training_results.status = "ok" =>
                        /\ \E s \in DOMAIN training_results.fit_calls :
                              /\ training_results.fit_calls[s]
                                    = [target |-> "ktv", model_type |-> "stacked"]
                              /\ BasesFittedBefore(EnsembleModels[k], s)
                        /\ Cardinality(BaseFitCalls) = Len(EnsembleModels[k].base_models)
                        /\ Len(training_results.targets["ktv"][k].extras.base_models)
                              = Len(EnsembleModels[k].base_models)
                        /\ \A i \in DOMAIN EnsembleModels[k].base_models :
                              /\ DOMAIN training_results.targets["ktv"][k].extras.base_models[i]
                                    = {"name", "best_params", "best_score"}
                              /\ training_results.targets["ktv"][k].extras.base_models[i].name
                                    = EnsembleModels[k].base_models[i].model_type
                                      \o "_" \o IntToStr(i - 1)
                     /\ training_results.status # "ok" =>
                           /\ error = "ValueError"
                           /\ UnfitData

\* the bases of the definition are estimators, none a dict of quantile
\* estimators
BasesAreEstimators(model_def) ==
    \A i \in DOMAIN model_def.base_models :
        model_def.base_models[i].model_type # "quantile_lightgbm"

\* train_models raised on a stacked definition with a quantile ensemble
\* among its bases, on data that every estimator can be fitted to
StackedQuantileBaseFails ==
    (/\ pc # "model_training"
     /\ ~UnfitData
     /\ \E k \in DOMAIN EnsembleModels :
           /\ EnsembleModels[k].model_type = "stacked"
           /\ ~BasesAreEstimators(EnsembleModels[k]))
    => pc = "failed" /\ error = "AttributeError" /\ training_results = Unset

----------------------------------------------------------------------------
(* Claims about the order of the stages, checked under Spec *)

\* the stages of training_pipeline in the order of its calls; a stage is
\* running while pc names it
StageOrder ==
    <<"ingestion", "split", "preprocessing", "feature_selection", "training_input",
      "model_training", "evaluation">>

\* for each stage, whether its output exists
Materialised ==
    <<raw_data # EmptyFrame,
      split_output.status = "ok",
      preprocessing_output.status = "ok",
      feature_selection_output.status = "ok",
      training_input.status = "ok",
      training_results.status = "ok",
      evaluation_summary.status = "ok">>

\* exactly the stages before stage n have produced their output
CompletedBefore(n) == \A i \in DOMAIN StageOrder : Materialised[i] <=> i < n

\* C29: the stages run in the order ingestion, split, preprocessing, feature
\* selection, training-input assembly, model training, evaluation: while a
\* stage runs, every stage before it has produced its output and no stage
\* after it has; a step of the run ends one stage and starts the next one
\* or fails the run; and after a failure the outputs are those of the
\* stages before the failed one and no stage runs any more
C29_StageOrdering ==
    /\ [](/\ \A n \in DOMAIN StageOrder : pc = StageOrder[n] => CompletedBefore(n)
          /\ pc = "done" => CompletedBefore(Len(StageOrder) + 1)
          /\ pc = "failed" =>
                /\ error # "none"
                /\ \E n \in DOMAIN StageOrder : CompletedBefore(n))
    /\ [][/\ pc \notin {"failed", "done"}
          /\ \E n \in DOMAIN StageOrder :
                /\ pc = StageOrder[n]
                /\ \/ pc' = "failed"
                   \/ n < Len(StageOrder) /\ pc' = StageOrder[n + 1]
                   \/ n = Len(StageOrder) /\ pc' = "done"]_vars

\* the run failed in model training: the five stages before it have their
\* outputs, model training and evaluation have none
C29_Witness ==
    /\ pc = "failed"
    /\ error # "none"
    /\ CompletedBefore(6)

----------------------------------------------------------------------------
(* Claims about what evaluate_models leaves alone, checked under            *)
(* EnsembleSpec                                                             *)

\* the keys that evaluate_models adds to the extras it stores
TestTimeKeys == {"y_true_test", "y_pred_test", "quantile_predictions_test"}

\* name, estimator, train metrics and the keys of the extras of every
\* trained model
TrainedModels(tr) ==
    [t \in DOMAIN tr.targets |->
        [k \in DOMAIN tr.targets[t] |->
            [name      |-> tr.targets[t][k].name,
             estimator |-> tr.targets[t][k].estimator,
             metrics   |-> tr.targets[t][k].metrics,
             keys      |-> DOMAIN tr.targets[t][k].extras]]]

\* C30: a call of evaluate_models, returning or raising, leaves the
\* artifacts, the train and the test split, the features, targets and
\* selected_feature_map of the ModelTrainingInput, and the name, estimator,
\* train metrics and extras keys of every trained model as they were; the
\* test-time entries are in the extras of the EvaluationSummary only, which
\* hold every entry of the trained model's extras beside them
C30_EvaluatorIsReadOnly ==
    [][pc = "evaluation" =>
          /\ training_input' = training_input
          /\ split_output' = split_output
          /\ TrainedModels(training_results') = TrainedModels(training_results)
          /\ \A t \in DOMAIN training_results'.targets :
                \A k \in DOMAIN training_results'.targets[t] :
                    /\ DOMAIN training_results'.targets[t][k].extras \cap TestTimeKeys = {}
                    /\ t \in DOMAIN evaluation_summary'.targets =>
                          /\ {"y_true_test", "y_pred_test"}
                                \subseteq DOMAIN evaluation_summary'.targets[t][k].extras
                          /\ \A key \in DOMAIN training_results.targets[t][k].extras :
                                evaluation_summary'.targets[t][k].extras[key]
                                   = training_results.targets[t][k].extras[key]]_vars

\* evaluate_models has returned the evaluation of a quantile ensemble, with
\* the test predictions of its quantiles in the stored extras
C30_Witness ==
    /\ pc = "done"
    /\ "ktv" \in DOMAIN evaluation_summary.targets
    /\ \E k \in DOMAIN evaluation_summary.targets["ktv"] :
          /\ "quantile_predictions_test" \in DOMAIN evaluation_summary.targets["ktv"][k].extras
          /\ "quantile_predictions_test" \notin DOMAIN training_results.targets["ktv"][k].extras

=============================================================================
